---- MODULE Spec2Model ----
(***************************************************************************)
(* Usage accounting and quota enforcement of the technical-analysis bot:   *)
(* UsageTracker (src/src/database/usage_tracker.py) over its two SQLite     *)
(* tables, and its callers AIAnalysisService.analyze_stock_data            *)
(* (src/src/services/ai_analysis_service.py) and _analyze_command_handler  *)
(* (src/src/discord_bot/bot.py).                                           *)
(*                                                                         *)
(* Money is counted in micro-dollars (10.00 USD = 10000000), so the sums   *)
(* SQLite and Python form over REAL columns are exact integer sums here;    *)
(* floating-point rounding of those sums is outside the model.             *)
(* A datetime is a record [h, us]: h counts whole hours since the first    *)
(* instant of the run (00:00 on the 1st of a 31-day month), us is the      *)
(* sub-hour part, of which only "zero or not" matters to isoformat().      *)
(***************************************************************************)
EXTENDS Integers, Sequences, FiniteSets, TLC

VARIABLES
    now,            \* the wall clock read by datetime.now()
    db_ok,          \* whether a statement sent to the SQLite file succeeds
    settings,       \* the Settings object: DEFAULT_* limits
    coingecko,      \* the CoinGecko API: the list /coins/list returns, and
                    \* whether a request to it succeeds
    crypto,         \* the CryptoMarketDataService object's cache fields
    usage_records,  \* table usage_records, in id (AUTOINCREMENT) order
    user_limits,    \* table user_limits, a set of rows
    pc,             \* per task: the statement it is about to execute
    frame           \* per task: arguments, locals and the last return value

vars == <<now, db_ok, settings, coingecko, crypto, usage_records, user_limits, pc, frame>>

-----------------------------------------------------------------------------
(* Bounds of the model *)

MaxEvents == 3      \* rows that direct record_usage calls may add to usage_records
MaxRequests == 4    \* rows that analysis requests may add to usage_records

Users == {"u1", "u2"}
Tasks == {"t1", "t2"}
Services == {"groq", "coingecko"}

(* Optional arguments and nullable values: None is <<>>, a value v is <<v>>. *)
None == <<>>
Some(v) == <<v>>
IsNone(o) == o = <<>>
Get(o) == o[1]

-----------------------------------------------------------------------------
(* Time: datetime, timedelta, isoformat() and SQLite's TEXT comparison *)

DateTime(h, us) == [h |-> h, us |-> us]

(* datetime.now() - timedelta(days=days, hours=hours) *)
MinusDelta(t, days, hours) == [h |-> t.h - (days * 24 + hours), us |-> t.us]

(* datetime order *)
Earlier(a, b) == a.h < b.h \/ (a.h = b.h /\ a.us < b.us)

(* datetime.isoformat(): the fields are fixed-width, so the date-and-time
   part is one comparable key; the ".ffffff" part is omitted when the
   microsecond field is zero. *)
IsoFormat(t) == IF t.us = 0 THEN <<t.h>> ELSE <<t.h, t.us>>

(* a > b for two TEXT values: the comparison that would leave an event exactly
   on the edge of a window out. *)
RECURSIVE TextGT(_, _)
TextGT(a, b) ==
    IF a = <<>> THEN FALSE
    ELSE IF b = <<>> THEN TRUE
    ELSE IF Head(a) # Head(b) THEN Head(a) > Head(b)
    ELSE TextGT(Tail(a), Tail(b))

(* a >= b for two TEXT values under SQLite's BINARY collation: compare
   position by position, and a proper prefix sorts first. *)
RECURSIVE TextGE(_, _)
TextGE(a, b) ==
    IF b = <<>> THEN TRUE
    ELSE IF a = <<>> THEN FALSE
    ELSE IF Head(a) # Head(b) THEN Head(a) > Head(b)
    ELSE TextGE(Tail(a), Tail(b))

(* The instants the clock takes: an event of instant 0 is then exactly on the
   edge of the hour window (at 1:00), just outside it (after 1:00), on the
   edge of the day window (at 24:00, a midnight), on the edge of the 30-day
   window (at hour 720) and outside it (at hour 721). *)
Instants ==
    { DateTime(0, 0), DateTime(1, 0), DateTime(1, 1), DateTime(24, 0),
      DateTime(720, 0), DateTime(721, 0) }

(* An instant past the first hour, and one at which every event of the
   instants above is older than 30 days *)
LateInstants == { DateTime(1, 1), DateTime(1442, 0) }

(* The instants of the first two hours only *)
HourInstants == { DateTime(0, 0), DateTime(1, 0), DateTime(1, 1) }

Tick(instants) == \E t \in instants : Earlier(now, t) /\ now' = t

-----------------------------------------------------------------------------
(* The SQL statements, as functions of the table they read *)

UsageRow(user_id, timestamp, api_service, tokens_used, estimated_cost, request_type) ==
    [user_id |-> user_id, timestamp |-> timestamp, api_service |-> api_service,
     tokens_used |-> tokens_used, estimated_cost |-> estimated_cost,
     request_type |-> request_type]

(* WHERE user_id = ? AND timestamp >= ? : the ids of the matching rows *)
WhereAnyUserSince(records, user_id, start_date) ==
    { i \in 1..Len(records) : TextGE(records[i].timestamp, start_date) }

(* WHERE user_id = ? AND timestamp >= ? *)
WhereUserSince(records, user_id, start_date) ==
    { i \in 1..Len(records) :
        records[i].user_id = user_id /\ TextGE(records[i].timestamp, start_date) }

(* SUM(column) over the rows with these ids *)
RECURSIVE SqlSum(_, _, _)
SqlSum(records, ids, column) ==
    IF ids = {} THEN 0
    ELSE LET i == CHOOSE x \in ids : TRUE
         IN  records[i][column] + SqlSum(records, ids \ {i}, column)

(* SELECT api_service, SUM(tokens_used), SUM(estimated_cost), COUNT
   ... WHERE user_id = ? AND timestamp >= ? GROUP BY api_service,
   then the loop building usage_stats: a dict keyed by the services that
   have a row in the window. *)
SelectUsageByService(records, user_id, start_date) ==
    LET ids == WhereUserSince(records, user_id, start_date)
        group(s) == { i \in ids : records[i].api_service = s }
    IN  [ s \in { records[i].api_service : i \in ids } |->
            [tokens   |-> SqlSum(records, group(s), "tokens_used"),
             cost     |-> SqlSum(records, group(s), "estimated_cost"),
             requests |-> Cardinality(group(s))] ]

(* the count without the user_id condition: every user's rows since start_date *)
SelectCountAnyUser(records, user_id, start_date) ==
    Cardinality({ i \in 1..Len(records) : TextGE(records[i].timestamp, start_date) })

(* SELECT COUNT FROM usage_records WHERE user_id = ? AND timestamp >= ? *)
SelectCount(records, user_id, start_date) ==
    Cardinality(WhereUserSince(records, user_id, start_date))

(* the cost of one service only, in place of the sum over the services *)
OneServiceCost(usage) ==
    IF DOMAIN usage = {} THEN 0 ELSE usage[CHOOSE s \in DOMAIN usage : TRUE].cost

(* sum(service['cost'] for service in usage.values()) *)
RECURSIVE SumCost(_)
SumCost(usage) ==
    IF DOMAIN usage = {} THEN 0
    ELSE LET s == CHOOSE x \in DOMAIN usage : TRUE
         IN  usage[s].cost + SumCost([x \in DOMAIN usage \ {s} |-> usage[x]])

LimitsRow(user_id, limits, created_at, updated_at) ==
    [user_id |-> user_id, monthly_limit |-> limits.monthly_limit,
     daily_limit |-> limits.daily_limit,
     requests_per_hour |-> limits.requests_per_hour,
     created_at |-> created_at, updated_at |-> updated_at]

(* SELECT ... FROM user_limits WHERE user_id = ? : the rows found *)
SelectLimits(table, user_id) == { r \in table : r.user_id = user_id }

(* a plain INSERT into a table without the PRIMARY KEY: the old row stays *)
PlainInsert(table, row) == table \cup {row}

(* INSERT OR REPLACE INTO user_limits: user_id is the PRIMARY KEY, so any
   row with the same user_id is deleted before the new one is inserted. *)
InsertOrReplace(table, row) ==
    { r \in table : r.user_id # row.user_id } \cup {row}

Limits(m, d, r) == [monthly_limit |-> m, daily_limit |-> d, requests_per_hour |-> r]

-----------------------------------------------------------------------------
(* Settings and the limits a new user gets *)

DEFAULT_MONTHLY_LIMIT == 10000000
DEFAULT_DAILY_LIMIT == 2000000
DEFAULT_HOURLY_REQUESTS == 20
GROQ_COST_PER_1K_TOKENS == 200

FALLBACK_MONTHLY_LIMIT == 10000000
FALLBACK_DAILY_LIMIT == 2000000
FALLBACK_REQUESTS_PER_HOUR == 20

(* The Settings object is filled from the environment when the process
   starts: either no variable is set, or an operator set tighter limits
   (1.00 USD a month, 0.50 USD a day, 1 request an hour). *)
SettingsChoices ==
    { [DEFAULT_MONTHLY_LIMIT |-> DEFAULT_MONTHLY_LIMIT,
       DEFAULT_DAILY_LIMIT |-> DEFAULT_DAILY_LIMIT,
       DEFAULT_HOURLY_REQUESTS |-> DEFAULT_HOURLY_REQUESTS,
       ADMIN_USER_IDS |-> {"admin"}],
      [DEFAULT_MONTHLY_LIMIT |-> 1000000,
       DEFAULT_DAILY_LIMIT |-> 500000,
       DEFAULT_HOURLY_REQUESTS |-> 1,
       ADMIN_USER_IDS |-> {"admin"}] }

(* the literals of the except branch in place of the settings *)
HardcodedLimits(s) ==
    Limits(FALLBACK_MONTHLY_LIMIT, FALLBACK_DAILY_LIMIT, FALLBACK_REQUESTS_PER_HOUR)

(* default_limits of create_default_limits *)
DefaultLimits(s) ==
    Limits(s.DEFAULT_MONTHLY_LIMIT, s.DEFAULT_DAILY_LIMIT, s.DEFAULT_HOURLY_REQUESTS)

(* the dict create_default_limits returns from its except branch *)
FallbackLimits ==
    Limits(FALLBACK_MONTHLY_LIMIT, FALLBACK_DAILY_LIMIT, FALLBACK_REQUESTS_PER_HOUR)

-----------------------------------------------------------------------------
(* Tasks: one per chat interaction or caller; frame[t] holds its call *)

NoUpdate == [monthly_limit |-> None, daily_limit |-> None, requests_per_hour |-> None]
EmptyDict == [s \in {} |-> 0]

NoFrame ==
    [op |-> "none", user_id |-> "", invoker |-> "", thread |-> "", symbol |-> "",
     client |-> TRUE,
     script |-> <<>>, attempts |-> 0, days |-> 0, limit |-> 0,
     event |-> None,
     upd |-> NoUpdate,
     limits |-> None, monthly_usage |-> None, daily_usage |-> None,
     timestamp |-> None, created_at |-> None, limits_check |-> None,
     passed |-> None, analysis |-> None, checks |-> 0,
     before |-> None, faulted |-> FALSE, result |-> None]

Idle(t) == pc[t] = "idle"

(* A call starts: the frame holds its arguments and nothing else. (before,
   where a call sets it, remembers the user's user_limits rows at the call;
   no statement reads it.) *)
NewFrame(op, user_id) == [NoFrame EXCEPT !.op = op, !.user_id = user_id]

Call(t, f, label) ==
    /\ Idle(t)
    /\ pc' = [pc EXCEPT ![t] = label]
    /\ frame' = [frame EXCEPT ![t] = f]

(* A call returns: its locals are gone, its arguments and value are kept for
   the caller. *)
Returned(f, value) ==
    [NoFrame EXCEPT !.op = f.op, !.user_id = f.user_id, !.days = f.days,
                    !.limit = f.limit, !.invoker = f.invoker,
                    !.thread = f.thread, !.symbol = f.symbol,
                    !.client = f.client,
                    !.script = f.script, !.attempts = f.attempts,
                    !.event = f.event, !.upd = f.upd,
                    !.before = f.before, !.faulted = f.faulted,
                    !.limits_check = f.limits_check, !.passed = f.passed,
                    !.result = Some(value)]

Return(t, f, value) ==
    /\ pc' = [pc EXCEPT ![t] = "done"]
    /\ frame' = [frame EXCEPT ![t] = Returned(f, value)]

(* The caller has taken the value: the task is free for the next call. *)
Forget(t) ==
    /\ pc[t] = "done"
    /\ pc' = [pc EXCEPT ![t] = "idle"]
    /\ frame' = [frame EXCEPT ![t] = NoFrame]
    /\ UNCHANGED <<now, db_ok, settings, coingecko, crypto, usage_records, user_limits>>

Goto(t, f, label) ==
    /\ pc' = [pc EXCEPT ![t] = label]
    /\ frame' = [frame EXCEPT ![t] = f]

(* Rows that calls in progress will still insert into usage_records *)
Recording == { t \in Tasks : pc[t] \in {"gul_select", "cdl_insert", "cul_monthly",
                                         "cul_daily", "cul_hourly", "asd_llm",
                                         "asd_record"}
                              /\ frame[t].op = "analyze_stock_data" }
RoomFor(bound) == Len(usage_records) + Cardinality(Recording) < bound

-----------------------------------------------------------------------------
(* UsageTracker.record_usage *)

(* What callers record: 0.25 USD of groq tokens, 0.75 USD of coingecko calls *)
GroqEvent == [api_service |-> "groq", tokens_used |-> 1250, estimated_cost |-> 250000,
              request_type |-> "market_analysis"]
CoinEvent == [api_service |-> "coingecko", tokens_used |-> 10, estimated_cost |-> 750000,
              request_type |-> "chart"]
EventChoices == {GroqEvent, CoinEvent}

(* a write that keeps one row per user: the user's earlier rows are dropped *)
RECURSIVE WithoutUser(_, _)
WithoutUser(records, user_id) ==
    IF records = <<>> THEN <<>>
    ELSE IF Head(records).user_id = user_id THEN WithoutUser(Tail(records), user_id)
    ELSE <<Head(records)>> \o WithoutUser(Tail(records), user_id)

ReplaceUsage(records, user_id, ev, t_now) ==
    Append(WithoutUser(records, user_id),
           UsageRow(user_id, IsoFormat(t_now), ev.api_service, ev.tokens_used,
                    ev.estimated_cost, ev.request_type))

(* The INSERT of record_usage, with timestamp = datetime.now().isoformat() *)
InsertUsage(records, user_id, ev, t_now) ==
    Append(records, UsageRow(user_id, IsoFormat(t_now), ev.api_service,
                             ev.tokens_used, ev.estimated_cost, ev.request_type))

(* record_usage returns True after the commit, False from its except branch *)
RecordUsage(t, inputs) ==
    \E in \in inputs : LET u == in[1] ev == in[2] IN
        /\ Idle(t)
        /\ RoomFor(MaxEvents)
        /\ usage_records' = IF db_ok THEN InsertUsage(usage_records, u, ev, now)
                            ELSE usage_records
        /\ Return(t, [NewFrame("record_usage", u) EXCEPT !.event = Some(ev),
                                                         !.faulted = ~db_ok], db_ok)
        /\ UNCHANGED <<now, db_ok, settings, coingecko, crypto, user_limits>>

-----------------------------------------------------------------------------
(* UsageTracker.get_user_usage and get_hourly_request_count *)

(* a total kept from before the latest write: the last row is not seen *)
StaleUsage(records, ok, user_id, days, t_now) ==
    IF ok
       THEN SelectUsageByService(IF records = <<>> THEN records
                                 ELSE SubSeq(records, 1, Len(records) - 1),
                                 user_id, IsoFormat(MinusDelta(t_now, days, 0)))
       ELSE EmptyDict

(* get_user_usage(user_id, days): the dict built from the SELECT, or {} from
   the except branch *)
UserUsage(records, ok, user_id, days, t_now) ==
    IF ok THEN SelectUsageByService(records, user_id,
                                    IsoFormat(MinusDelta(t_now, days, 0)))
    ELSE EmptyDict

(* counts the user's rows of any age *)
CountEver(records, ok, user_id, t_now) ==
    IF ok THEN SelectCount(records, user_id, IsoFormat(DateTime(0, 0))) ELSE 0

(* get_hourly_request_count(user_id): the COUNT, or 0 from the except branch *)
HourlyRequestCount(records, ok, user_id, t_now) ==
    IF ok THEN SelectCount(records, user_id, IsoFormat(MinusDelta(t_now, 0, 1)))
    ELSE 0

WindowChoices == {1, 30}

GetUserUsage(t, users) ==
    \E u \in users, days \in WindowChoices :
        /\ Idle(t)
        /\ Return(t, [NewFrame("get_user_usage", u) EXCEPT !.days = days,
                                                           !.faulted = ~db_ok],
                  UserUsage(usage_records, db_ok, u, days, now))
        /\ UNCHANGED <<now, db_ok, settings, coingecko, crypto, usage_records, user_limits>>

GetHourlyRequestCount(t, users) ==
    \E u \in users :
        /\ Idle(t)
        /\ Return(t, [NewFrame("get_hourly_request_count", u) EXCEPT !.faulted = ~db_ok],
                  HourlyRequestCount(usage_records, db_ok, u, now))
        /\ UNCHANGED <<now, db_ok, settings, coingecko, crypto, usage_records, user_limits>>

-----------------------------------------------------------------------------
(* UsageTracker.check_user_limits and what its callers do with the answer *)

(* the three comparisons made strict: a user exactly on a limit is refused *)
BelowLimits(monthly_cost, daily_cost, hourly_requests, limits) ==
    /\ monthly_cost < limits.monthly_limit
    /\ daily_cost < limits.daily_limit
    /\ hourly_requests < limits.requests_per_hour

WithinLimits(monthly_cost, daily_cost, hourly_requests, limits) ==
    /\ monthly_cost <= limits.monthly_limit
    /\ daily_cost <= limits.daily_limit
    /\ hourly_requests <= limits.requests_per_hour

(* the dict check_user_limits returns *)
CheckResult(limits, monthly_usage, daily_usage, hourly_requests) ==
    LET monthly_cost == SumCost(monthly_usage)
        daily_cost == SumCost(daily_usage)
    IN  [within_limits |-> WithinLimits(monthly_cost, daily_cost, hourly_requests, limits),
         monthly_usage |-> monthly_cost,
         monthly_limit |-> limits.monthly_limit,
         daily_usage |-> daily_cost,
         daily_limit |-> limits.daily_limit,
         hourly_requests |-> hourly_requests,
         hourly_limit |-> limits.requests_per_hour]

(* AIAnalysisService._create_limit_exceeded_message: which message is built *)
LimitExceededMessage(limits_check) ==
    IF limits_check.monthly_usage >= limits_check.monthly_limit
        THEN "Monthly Usage Limit Reached"
    ELSE IF limits_check.daily_usage >= limits_check.daily_limit
        THEN "Daily Usage Limit Reached"
    ELSE IF limits_check.hourly_requests >= limits_check.hourly_limit
        THEN "Rate Limit Exceeded"
    ELSE "Usage limit exceeded"

(* analyze_stock_data going on to the analysis whatever the check answered *)
AsdIgnoreCheck(t, f, res) ==
    Goto(t, [f EXCEPT !.passed = Some(res.within_limits)], "asd_llm")

(* analyze_stock_data after its check_user_limits call: return the limit
   message, or go on to the analysis *)
AsdAfterCheck(t, f, res) ==
    IF ~res.within_limits
        THEN Return(t, [f EXCEPT !.limits_check = Some(res)], LimitExceededMessage(res))
        ELSE Goto(t, [f EXCEPT !.passed = Some(res.within_limits)], "asd_llm")

(* _analyze_command_handler after a check_user_limits call: the first one
   gates the interface, the second one only feeds the usage warning *)
CmdAfterCheck(t, f, res) ==
    IF f.checks = 0
        THEN IF ~res.within_limits
                THEN Return(t, [f EXCEPT !.limits_check = Some(res)], "limit_message")
                ELSE Goto(t, [f EXCEPT !.passed = Some(res.within_limits), !.checks = 1],
                          "gul_select")
        ELSE Return(t, f, "interface_shown")

AfterCheck(t, f, res) ==
    CASE f.op = "analyze_stock_data" -> AsdAfterCheck(t, f, res)
      [] f.op = "analyze_command" -> CmdAfterCheck(t, f, res)
      [] OTHER -> Return(t, f, res)

CheckUserLimits(t, users) ==
    \E u \in users :
        /\ Call(t, [NewFrame("check_user_limits", u) EXCEPT
                        !.before = Some(SelectLimits(user_limits, u))], "gul_select")
        /\ UNCHANGED <<now, db_ok, settings, coingecko, crypto, usage_records, user_limits>>

CulMonthly(t) ==
    /\ pc[t] = "cul_monthly"
    /\ Goto(t, [frame[t] EXCEPT
                  !.monthly_usage = Some(UserUsage(usage_records, db_ok, frame[t].user_id, 30, now)),
                  !.faulted = @ \/ ~db_ok], "cul_daily")
    /\ UNCHANGED <<now, db_ok, settings, coingecko, crypto, usage_records, user_limits>>

CulDaily(t) ==
    /\ pc[t] = "cul_daily"
    /\ Goto(t, [frame[t] EXCEPT
                  !.daily_usage = Some(UserUsage(usage_records, db_ok, frame[t].user_id, 1, now)),
                  !.faulted = @ \/ ~db_ok], "cul_hourly")
    /\ UNCHANGED <<now, db_ok, settings, coingecko, crypto, usage_records, user_limits>>

CulHourly(t) ==
    /\ pc[t] = "cul_hourly"
    /\ LET f == frame[t]
           hourly_requests == HourlyRequestCount(usage_records, db_ok, f.user_id, now)
           res == CheckResult(Get(f.limits), Get(f.monthly_usage), Get(f.daily_usage),
                              hourly_requests)
       IN  AfterCheck(t, [f EXCEPT !.limits = None, !.monthly_usage = None,
                                   !.daily_usage = None,
                                                    !.faulted = @ \/ ~db_ok], res)
    /\ UNCHANGED <<now, db_ok, settings, coingecko, crypto, usage_records, user_limits>>

(* The three reads of check_user_limits taken at one instant: what a check
   does when nothing else runs between its statements. *)
CulQueries(t) ==
    /\ pc[t] = "cul_monthly"
    /\ LET f == frame[t]
           monthly_usage == UserUsage(usage_records, db_ok, f.user_id, 30, now)
           daily_usage == UserUsage(usage_records, db_ok, f.user_id, 1, now)
           hourly_requests == HourlyRequestCount(usage_records, db_ok, f.user_id, now)
           res == CheckResult(Get(f.limits), monthly_usage, daily_usage, hourly_requests)
       IN  AfterCheck(t, [f EXCEPT !.limits = None, !.faulted = @ \/ ~db_ok], res)
    /\ UNCHANGED <<now, db_ok, settings, coingecko, crypto, usage_records, user_limits>>

-----------------------------------------------------------------------------
(* UsageTracker.get_user_limits, create_default_limits, update_user_limits *)

RowLimits(row) == Limits(row.monthly_limit, row.daily_limit, row.requests_per_hour)

(* an update that puts the built-in values in the fields not provided *)
ResetUpdate(current_limits, upd) ==
    Limits(IF IsNone(upd.monthly_limit) THEN FALLBACK_MONTHLY_LIMIT
                                        ELSE Get(upd.monthly_limit),
           IF IsNone(upd.daily_limit) THEN FALLBACK_DAILY_LIMIT
                                      ELSE Get(upd.daily_limit),
           IF IsNone(upd.requests_per_hour) THEN FALLBACK_REQUESTS_PER_HOUR
                                            ELSE Get(upd.requests_per_hour))

(* "Update only provided values" of update_user_limits *)
ApplyUpdate(current_limits, upd) ==
    Limits(IF IsNone(upd.monthly_limit) THEN current_limits.monthly_limit
                                        ELSE Get(upd.monthly_limit),
           IF IsNone(upd.daily_limit) THEN current_limits.daily_limit
                                      ELSE Get(upd.daily_limit),
           IF IsNone(upd.requests_per_hour) THEN current_limits.requests_per_hour
                                            ELSE Get(upd.requests_per_hour))

(* get_user_limits returns to get_user_limits' caller *)
AfterLimits(t, f, limits) ==
    CASE f.op = "get_user_limits" -> Return(t, f, limits)
      [] f.op = "update_user_limits" ->
            Goto(t, [f EXCEPT !.limits = Some(ApplyUpdate(limits, f.upd))], "uul_select")
      [] OTHER -> Goto(t, [f EXCEPT !.limits = Some(limits)], "cul_monthly")

GetUserLimits(t, users) ==
    \E u \in users :
        /\ Call(t, [NewFrame("get_user_limits", u) EXCEPT
                        !.before = Some(SelectLimits(user_limits, u))], "gul_select")
        /\ UNCHANGED <<now, db_ok, settings, coingecko, crypto, usage_records, user_limits>>

(* The SELECT of get_user_limits: a row is returned as the limits; no row,
   and equally any exception, leads to create_default_limits. *)
GulSelect(t) ==
    /\ pc[t] = "gul_select"
    /\ LET f == frame[t]
           rows == SelectLimits(user_limits, f.user_id)
       IN  IF db_ok /\ rows # {}
              THEN AfterLimits(t, f, RowLimits(CHOOSE r \in rows : TRUE))
              ELSE Goto(t, [f EXCEPT !.faulted = @ \/ ~db_ok], "cdl_insert")
    /\ UNCHANGED <<now, db_ok, settings, coingecko, crypto, usage_records, user_limits>>

(* create_default_limits answering the defaults without storing them *)
CdlAnswerOnly(t) ==
    /\ pc[t] = "cdl_insert"
    /\ AfterLimits(t, frame[t], DefaultLimits(settings))
    /\ UNCHANGED <<now, db_ok, settings, coingecko, crypto, usage_records, user_limits>>

(* create_default_limits: INSERT OR REPLACE the defaults and return them, or
   return the built-in dict from the except branch. *)
CdlInsert(t) ==
    /\ pc[t] = "cdl_insert"
    /\ LET f == frame[t]
           timestamp == IsoFormat(now)
       IN  IF db_ok
              THEN /\ user_limits' = InsertOrReplace(user_limits,
                            LimitsRow(f.user_id, DefaultLimits(settings), timestamp, timestamp))
                   /\ AfterLimits(t, f, DefaultLimits(settings))
              ELSE /\ UNCHANGED user_limits
                   /\ AfterLimits(t, [f EXCEPT !.faulted = TRUE], FallbackLimits)
    /\ UNCHANGED <<now, db_ok, settings, coingecko, crypto, usage_records>>

UpdateChoices ==
    { [NoUpdate EXCEPT !.daily_limit = Some(1000000)],
      [NoUpdate EXCEPT !.monthly_limit = Some(50000000)],
      [NoUpdate EXCEPT !.requests_per_hour = Some(2)],
      [monthly_limit |-> Some(50000000), daily_limit |-> Some(10000000),
       requests_per_hour |-> Some(100)] }

(* the two updates that supply disjoint fields *)
DisjointUpdates ==
    { [NoUpdate EXCEPT !.monthly_limit = Some(50000000)],
      [NoUpdate EXCEPT !.daily_limit = Some(1000000)] }

UpdateUserLimits(t, users, updates) ==
    \E u \in users, upd \in updates :
        /\ Call(t, [NewFrame("update_user_limits", u) EXCEPT
                        !.upd = upd,
                        !.before = Some(SelectLimits(user_limits, u))], "gul_select")
        /\ UNCHANGED <<now, db_ok, settings, coingecko, crypto, usage_records, user_limits>>

(* update_user_limits: timestamp = now, then SELECT created_at *)
UulSelect(t) ==
    /\ pc[t] = "uul_select"
    /\ LET f == frame[t]
           timestamp == IsoFormat(now)
           rows == SelectLimits(user_limits, f.user_id)
           created_at == IF rows # {} THEN (CHOOSE r \in rows : TRUE).created_at
                                      ELSE timestamp
       IN  IF db_ok
              THEN Goto(t, [f EXCEPT !.timestamp = Some(timestamp),
                                     !.created_at = Some(created_at)], "uul_insert")
              ELSE Return(t, [f EXCEPT !.faulted = TRUE], FALSE)
    /\ UNCHANGED <<now, db_ok, settings, coingecko, crypto, usage_records, user_limits>>

(* update_user_limits returned True: set_user_limits goes on to read the
   limits back with get_user_limits; any other caller has its value. *)
AfterUpdate(t, f) ==
    IF f.invoker # ""
       THEN Goto(t, [f EXCEPT !.op = "get_user_limits", !.limits = None,
                              !.timestamp = None, !.created_at = None], "gul_select")
       ELSE Return(t, f, TRUE)

(* update_user_limits: INSERT OR REPLACE and commit *)
UulInsert(t) ==
    /\ pc[t] = "uul_insert"
    /\ LET f == frame[t]
       IN  IF db_ok
              THEN /\ user_limits' = InsertOrReplace(user_limits,
                            LimitsRow(f.user_id, Get(f.limits), Get(f.created_at),
                                      Get(f.timestamp)))
                   /\ AfterUpdate(t, f)
              ELSE /\ UNCHANGED user_limits
                   /\ Return(t, [f EXCEPT !.faulted = TRUE], FALSE)
    /\ UNCHANGED <<now, db_ok, settings, coingecko, crypto, usage_records>>

-----------------------------------------------------------------------------
(* Reporting: get_top_users_by_usage and get_usage_stats *)

(* the rows of every date: the window left out *)
WhereEver(records, start_date) == 1..Len(records)

(* WHERE timestamp >= ? *)
WhereSince(records, start_date) ==
    { i \in 1..Len(records) : TextGE(records[i].timestamp, start_date) }

(* SELECT user_id, SUM(estimated_cost) ... GROUP BY user_id: one
   (user_id, total_cost) tuple per user with a row in the window *)
SelectCostByUser(records, start_date) ==
    LET ids == WhereSince(records, start_date)
    IN  { <<u, SqlSum(records, { i \in ids : records[i].user_id = u }, "estimated_cost")>> :
            u \in { records[i].user_id : i \in ids } }

(* the lists of at most limit rows in any order *)
AnyOrders(rows, limit) ==
    LET n == IF Cardinality(rows) < limit THEN Cardinality(rows) ELSE limit
    IN  { q \in [1..n -> rows] : \A i, j \in 1..n : i < j => q[i] # q[j] }

(* ORDER BY total_cost DESC LIMIT ?: the lists fetchall() may return; SQLite
   leaves the order of rows with equal total_cost open. *)
TopOrders(rows, limit) ==
    LET n == IF Cardinality(rows) < limit THEN Cardinality(rows) ELSE limit
    IN  { q \in [1..n -> rows] :
            /\ \A i, j \in 1..n : i < j => q[i] # q[j] /\ q[i][2] >= q[j][2]
            /\ \A r \in rows : (\A i \in 1..n : q[i] # r) => \A i \in 1..n : q[i][2] >= r[2] }

LimitChoices == {1, 10}

GetTopUsersByUsage(t, windows) ==
    \E days \in windows, limit \in LimitChoices :
        /\ Idle(t)
        /\ LET f == [NewFrame("get_top_users_by_usage", "") EXCEPT
                        !.days = days, !.limit = limit, !.faulted = ~db_ok]
               start_date == IsoFormat(MinusDelta(now, days, 0))
           IN  IF db_ok
                  THEN \E q \in TopOrders(SelectCostByUser(usage_records, start_date), limit) :
                          Return(t, f, q)
                  ELSE Return(t, f, <<>>)
        /\ UNCHANGED <<now, db_ok, settings, coingecko, crypto, usage_records, user_limits>>

(* AVG(estimated_cost) as the exact quotient num / den *)
Ratio(num, den) == [num |-> num, den |-> den]

(* SELECT COUNT(DISTINCT user_id), COUNT, SUM(estimated_cost),
   AVG(estimated_cost) ... WHERE timestamp >= ?, with "or 0" applied to the
   NULLs of an empty window *)
UsageStats(records, ok, days, t_now) ==
    IF ok
       THEN LET ids == WhereSince(records, IsoFormat(MinusDelta(t_now, days, 0)))
                total == SqlSum(records, ids, "estimated_cost")
            IN  [unique_users |-> Cardinality({ records[i].user_id : i \in ids }),
                 total_requests |-> Cardinality(ids),
                 total_cost |-> total,
                 avg_cost_per_request |-> IF ids = {} THEN Ratio(0, 1)
                                          ELSE Ratio(total, Cardinality(ids)),
                 period_days |-> days]
       ELSE EmptyDict

GetUsageStats(t, windows) ==
    \E days \in windows :
        /\ Idle(t)
        /\ Return(t, [NewFrame("get_usage_stats", "") EXCEPT
                        !.days = days, !.faulted = ~db_ok],
                  UsageStats(usage_records, db_ok, days, now))
        /\ UNCHANGED <<now, db_ok, settings, coingecko, crypto, usage_records, user_limits>>

-----------------------------------------------------------------------------
(* The premium tier: AdminCommands.set_premium, scripts/setup_database.py and
   a direct update_user_limits(..., is_premium=True) *)

(* the parameters update_user_limits declares besides user_id *)
UpdateParameters == {"monthly_limit", "daily_limit", "requests_per_hour"}

(* Python binds a call only if every keyword names a parameter; otherwise the
   call raises TypeError in the caller, before the body's try. *)
Accepts(keywords) == keywords \subseteq UpdateParameters

(* the keywords of the premium calls *)
PremiumKeywords == UpdateParameters \cup {"is_premium"}

(* the attributes the premium calls read from settings; reading an attribute
   the Settings class does not define raises AttributeError. *)
PremiumSettings ==
    {"PREMIUM_MONTHLY_LIMIT", "PREMIUM_DAILY_LIMIT", "PREMIUM_HOURLY_REQUESTS"}
StandardSettings ==
    {"DEFAULT_MONTHLY_LIMIT", "DEFAULT_DAILY_LIMIT", "DEFAULT_HOURLY_REQUESTS"}

PremiumUpdate ==
    [monthly_limit |-> Some(settings.PREMIUM_MONTHLY_LIMIT),
     daily_limit |-> Some(settings.PREMIUM_DAILY_LIMIT),
     requests_per_hour |-> Some(settings.PREMIUM_HOURLY_REQUESTS)]
StandardUpdate ==
    [monthly_limit |-> Some(settings.DEFAULT_MONTHLY_LIMIT),
     daily_limit |-> Some(settings.DEFAULT_DAILY_LIMIT),
     requests_per_hour |-> Some(settings.DEFAULT_HOURLY_REQUESTS)]

(* update_user_limits(user_id, is_premium=True, monthly_limit=50.00) *)
UpdateUserLimitsPremium(t, users) ==
    \E u \in users :
        /\ Idle(t)
        /\ IF Accepts({"is_premium", "monthly_limit"})
              THEN Call(t, [NewFrame("update_user_limits", u) EXCEPT
                              !.upd = [NoUpdate EXCEPT !.monthly_limit = Some(50000000)],
                              !.before = Some(SelectLimits(user_limits, u))], "gul_select")
              ELSE Return(t, [NewFrame("update_user_limits_premium", u) EXCEPT
                                !.before = Some(SelectLimits(user_limits, u))],
                          "TypeError")
        /\ UNCHANGED <<now, db_ok, settings, coingecko, crypto, usage_records, user_limits>>

(* set_premium: the arguments are evaluated, the call is bound, and every
   exception ends in the "Error updating premium status" reply. *)
SetPremium(t, users) ==
    \E u \in users, premium \in BOOLEAN :
        /\ Idle(t)
        /\ IF /\ (IF premium THEN PremiumSettings ELSE StandardSettings)
                      \subseteq DOMAIN settings
              /\ Accepts(PremiumKeywords)
              THEN Call(t, [NewFrame("update_user_limits", u) EXCEPT
                              !.upd = IF premium THEN PremiumUpdate ELSE StandardUpdate,
                              !.before = Some(SelectLimits(user_limits, u))], "gul_select")
              ELSE Return(t, [NewFrame("set_premium", u) EXCEPT
                                !.before = Some(SelectLimits(user_limits, u))],
                          "Error updating premium status")
        /\ UNCHANGED <<now, db_ok, settings, coingecko, crypto, usage_records, user_limits>>

(* setup_database: the premium update of the first admin id raises (or, with
   no admin id, the logging of settings.PREMIUM_MONTHLY_LIMIT does), and the
   except branch returns False. *)
SetupDatabase(t, admins) ==
    /\ Idle(t)
    /\ IF PremiumSettings \subseteq DOMAIN settings /\ Accepts(PremiumKeywords)
          THEN \E u \in admins :
                  Call(t, [NewFrame("update_user_limits", u) EXCEPT
                              !.upd = PremiumUpdate,
                              !.before = Some(SelectLimits(user_limits, u))], "gul_select")
          ELSE Return(t, [NewFrame("setup_database", "") EXCEPT
                            !.before = Some(user_limits)], FALSE)
    /\ UNCHANGED <<now, db_ok, settings, coingecko, crypto, usage_records, user_limits>>

-----------------------------------------------------------------------------
(* AdminCommands: usage_stats, user_usage, set_user_limits, set_premium *)

(* admits every user: the membership test left out *)
IsAnyone(user_id) == TRUE

(* str(user_id) in settings.ADMIN_USER_IDS *)
IsAdmin(user_id) == user_id \in settings.ADMIN_USER_IDS

AdminCommandNames == {"usage_stats", "user_usage", "set_user_limits", "set_premium"}

(* the first statement of each admin command: the reply to a non-admin *)
Denied(t, cmd, invoker, target) ==
    Return(t, [NewFrame(cmd, target) EXCEPT !.invoker = invoker, !.thread = "event_loop"],
           "Admin access required")

(* usage_stats: get_usage_stats(days) and get_top_users_by_usage(days, 5) *)
UsageStatsCommand(t, invoker) ==
    \E days \in {30} :
        LET f == [NewFrame("usage_stats", "") EXCEPT
                     !.invoker = invoker, !.thread = "event_loop", !.days = days, !.limit = 5, !.faulted = ~db_ok]
            start_date == IsoFormat(MinusDelta(now, days, 0))
        IN  \E q \in (IF db_ok THEN TopOrders(SelectCostByUser(usage_records, start_date), 5)
                               ELSE {<<>>}) :
                Return(t, f, [stats |-> UsageStats(usage_records, db_ok, days, now),
                              top_users |-> q])

(* user_usage: get_user_usage(user_id, days), then check_user_limits(user_id),
   whose value is the one the reply is built from here *)
UserUsageCommand(t, invoker, target) ==
    \E days \in {30} :
        Call(t, [NewFrame("user_usage", target) EXCEPT
                    !.invoker = invoker, !.thread = "event_loop", !.days = days, !.faulted = ~db_ok,
                    !.analysis = Some(UserUsage(usage_records, db_ok, target, days, now))],
             "gul_select")

(* set_user_limits: update_user_limits(user_id, ...), then get_user_limits *)
SetUserLimitsCommand(t, invoker, target, updates) ==
    \E upd \in updates :
        Call(t, [NewFrame("update_user_limits", target) EXCEPT
                    !.invoker = invoker, !.thread = "event_loop", !.upd = upd],
             "gul_select")

(* An admin command arrives: is_admin decides between the refusal and the
   body of the command. *)
AdminCommand(t, invokers, targets, updates) ==
    \E invoker \in invokers, target \in targets, cmd \in AdminCommandNames :
        /\ Idle(t)
        /\ IF ~IsAdmin(invoker) THEN Denied(t, cmd, invoker, target)
           ELSE CASE cmd = "usage_stats" -> UsageStatsCommand(t, invoker)
                  [] cmd = "user_usage" -> UserUsageCommand(t, invoker, target)
                  [] cmd = "set_user_limits" ->
                        SetUserLimitsCommand(t, invoker, target, updates)
                  [] cmd = "set_premium" ->
                        Return(t, [NewFrame("set_premium", target) EXCEPT
                                      !.invoker = invoker, !.thread = "event_loop"],
                               "Error updating premium status")
        /\ UNCHANGED <<now, db_ok, settings, coingecko, crypto, usage_records, user_limits>>

-----------------------------------------------------------------------------
(* AIAnalysisService.analyze_stock_data and _analyze_command_handler *)

TokenChoices == {500}

(* stop=stop_after_attempt(3) *)
STOP_AFTER_ATTEMPT == 3

(* What one call of chat.completions.create does: it returns a response
   whose content is the JSON asked for, or one whose content is not JSON, or
   it raises httpx.HTTPStatusError, or any other exception. *)
Outcomes == {"response", "garbled", "HTTPStatusError", "APIError"}

(* What the API does at the first, second and third attempt of a request *)
ScriptChoices == [1..STOP_AFTER_ATTEMPT -> Outcomes]
Always(outcome) == [i \in 1..STOP_AFTER_ATTEMPT |-> outcome]

(* retries after any exception *)
RECURSIVE RetryAnyException(_, _)
RetryAnyException(script, attempt_number) ==
    IF script[attempt_number] \in {"HTTPStatusError", "APIError"}
       THEN IF attempt_number >= STOP_AFTER_ATTEMPT
               THEN [attempts |-> attempt_number, outcome |-> "RetryError"]
               ELSE RetryAnyException(script, attempt_number + 1)
       ELSE [attempts |-> attempt_number, outcome |-> script[attempt_number]]

(* _call_groq_api under @retry: an attempt that raises HTTPStatusError is
   followed by another one until stop_after_attempt, where RetryError is
   raised; a response is returned and any other exception propagates. *)
RECURSIVE _call_groq_api(_, _)
_call_groq_api(script, attempt_number) ==
    IF script[attempt_number] = "HTTPStatusError"
       THEN IF attempt_number >= STOP_AFTER_ATTEMPT
               THEN [attempts |-> attempt_number, outcome |-> "RetryError"]
               ELSE _call_groq_api(script, attempt_number + 1)
       ELSE [attempts |-> attempt_number, outcome |-> script[attempt_number]]

(* analyze_market_data: the Error dict when the client is not initialised
   or when anything is raised (json.JSONDecodeError included), the
   recommendation otherwise *)
analyze_market_data(client, script) ==
    IF ~client
       THEN [attempts |-> 0, action |-> "Error"]
       ELSE LET r == _call_groq_api(script, 1)
            IN  [attempts |-> r.attempts,
                 action |-> IF r.outcome = "response" THEN "Buy" ELSE "Error"]

(* estimated_cost = (total_tokens / 1000) * self.groq_cost_per_1k_tokens *)
EstimatedCost(total_tokens) == (total_tokens * GROQ_COST_PER_1K_TOKENS) \div 1000

(* "if user_id and self.usage_tracker": an empty user id is falsy; the
   tracker module is part of the repository, so the import succeeds. *)
Metered(user_id) == user_id # ""

AnalyzeStockData(t, users) ==
    \E u \in users :
        /\ RoomFor(MaxRequests)
        /\ Call(t, [NewFrame("analyze_stock_data", u) EXCEPT
                        !.thread = IF Metered(u) THEN "worker" ELSE ""],
                IF Metered(u) THEN "gul_select" ELSE "asd_llm")
        /\ UNCHANGED <<now, db_ok, settings, coingecko, crypto, usage_records, user_limits>>

(* analyze_stock_data calls analyze_market_data, which returns a dict: a
   recommendation, or action "Error". clients are the states self.client
   may be in (initialised or not), scripts what the API may do. *)
AsdLlm(t, clients, scripts) ==
    /\ pc[t] = "asd_llm"
    /\ \E client \in clients, script \in scripts, total_tokens \in TokenChoices :
          LET result == analyze_market_data(client, script)
              f == [frame[t] EXCEPT
                      !.client = client, !.script = script,
                      !.attempts = result.attempts,
                      !.analysis = Some([action |-> result.action,
                                         total_tokens |-> total_tokens])]
          IN  IF Metered(f.user_id)
                 THEN Goto(t, f, "asd_record")
                 ELSE Return(t, f, result.action)
    /\ UNCHANGED <<now, db_ok, settings, coingecko, crypto, usage_records, user_limits>>

(* a record_usage whose failure reaches analyze_stock_data's except branch *)
AsdRecordRaises(t) ==
    /\ pc[t] = "asd_record"
    /\ LET f == frame[t]
           a == Get(f.analysis)
           ev == [api_service |-> "groq", tokens_used |-> a.total_tokens,
                  estimated_cost |-> EstimatedCost(a.total_tokens),
                  request_type |-> "market_analysis"]
       IN  /\ usage_records' = IF db_ok THEN InsertUsage(usage_records, f.user_id, ev, now)
                               ELSE usage_records
           /\ Return(t, [f EXCEPT !.event = Some(ev), !.faulted = @ \/ ~db_ok],
                     IF db_ok THEN a.action ELSE "Error")
    /\ UNCHANGED <<now, db_ok, settings, coingecko, crypto, user_limits>>

(* the record_usage call of analyze_stock_data; its return value is ignored *)
AsdRecord(t) ==
    /\ pc[t] = "asd_record"
    /\ LET f == frame[t]
           a == Get(f.analysis)
           ev == [api_service |-> "groq", tokens_used |-> a.total_tokens,
                  estimated_cost |-> EstimatedCost(a.total_tokens),
                  request_type |-> "market_analysis"]
       IN  /\ usage_records' = IF db_ok THEN InsertUsage(usage_records, f.user_id, ev, now)
                               ELSE usage_records
           /\ Return(t, [f EXCEPT !.event = Some(ev), !.faulted = @ \/ ~db_ok], a.action)
    /\ UNCHANGED <<now, db_ok, settings, coingecko, crypto, user_limits>>

AnalyzeCommand(t, users) ==
    \E u \in users :
        /\ Call(t, [NewFrame("analyze_command", u) EXCEPT !.thread = "event_loop"],
                "gul_select")
        /\ UNCHANGED <<now, db_ok, settings, coingecko, crypto, usage_records, user_limits>>

-----------------------------------------------------------------------------
(* UserCommands.my_usage and the threads the handlers' ledger calls run on *)

(* my_usage: get_user_usage(user_id, days=30), then check_user_limits(user_id),
   both called in the body of the coroutine *)
MyUsage(t, users) ==
    \E u \in users :
        /\ Call(t, [NewFrame("my_usage", u) EXCEPT
                       !.thread = "event_loop", !.days = 30, !.faulted = ~db_ok,
                       !.analysis = Some(UserUsage(usage_records, db_ok, u, 30, now))],
                "gul_select")
        /\ UNCHANGED <<now, db_ok, settings, coingecko, crypto, usage_records, user_limits>>

(* the labels at which a task is inside a UsageTracker method *)
LedgerLabels == {"gul_select", "cdl_insert", "cul_monthly", "cul_daily", "cul_hourly",
                 "uul_select", "uul_insert", "asd_record"}

(* The task is inside a ledger call. (_analyze_command_handler awaits the
   user's choices between its two checks: there it is in no call.) *)
InLedgerCall(t) ==
    /\ pc[t] \in LedgerLabels
    /\ ~(frame[t].op = "analyze_command" /\ frame[t].checks = 1 /\ pc[t] = "gul_select")

(* The event loop runs one coroutine at a time and a synchronous call in a
   coroutine holds it: it is free when no ledger call runs on it. *)
LoopFree == \A t \in Tasks : ~(InLedgerCall(t) /\ frame[t].thread = "event_loop")

(* The event loop starts the handler of /analyze. *)
AnalyzeInteraction(t) == LoopFree /\ AnalyzeCommand(t, {"u1"})

(* The event loop starts the handler of /my_usage. *)
MyUsageInteraction(t) == LoopFree /\ MyUsage(t, {"u1"})

(* The event loop starts the handler of an admin command. *)
AdminInteraction(t) ==
    LoopFree /\ AdminCommand(t, {"admin", "u2"}, {"u1"},
                             {[NoUpdate EXCEPT !.daily_limit = Some(1000000)]})

(* run_analysis hands analyze_stock_data to a worker thread with
   asyncio.to_thread and awaits it. *)
run_analysis(t) == LoopFree /\ AnalyzeStockData(t, {"u1"})

-----------------------------------------------------------------------------
(* CryptoMarketDataService: the coin cache, _load_coins_list, _get_coin_id *)

(* an entry of /coins/list (name and platforms are not used by a lookup by
   symbol) *)
Coin(id, symbol) == [id |-> id, symbol |-> symbol]

(* the lists the API may return, each one extending the one before: a coin
   is listed, then another one under a symbol already taken *)
CoinsLists ==
    { <<Coin("bitcoin", "BTC")>>,
      <<Coin("bitcoin", "BTC"), Coin("newcoin", "NEW")>>,
      <<Coin("bitcoin", "BTC"), Coin("newcoin", "NEW"), Coin("new-token", "NEW")>> }

(* the symbols callers ask for, and str.upper() on them *)
SymbolChoices == {"btc", "NEW", "doge"}
Upper(symbol) ==
    CASE symbol = "btc" -> "BTC"
      [] symbol = "doge" -> "DOGE"
      [] OTHER -> symbol

(* self._cache_expiry_hours *)
_cache_expiry_hours == 24

(* the loop of _load_coins_list: new_cache keeps the first coin of each
   symbol, symbol_to_coins all of them in order *)
SymbolsOf(coins_data) == { coins_data[i].symbol : i \in 1..Len(coins_data) }
NewCache(coins_data) ==
    [s \in SymbolsOf(coins_data) |->
        coins_data[CHOOSE i \in 1..Len(coins_data) :
                      /\ coins_data[i].symbol = s
                      /\ \A j \in 1..(i - 1) : coins_data[j].symbol # s]]
SymbolToCoins(coins_data) ==
    [s \in SymbolsOf(coins_data) |-> SelectSeq(coins_data, LAMBDA c : c.symbol = s)]

(* the fields set by __init__ before its _load_coins_list call *)
NoCache == [_coins_cache |-> EmptyDict, _symbol_to_coins |-> EmptyDict,
            _cache_timestamp |-> None]

(* _load_coins_list: True at once while the cache is younger than
   _cache_expiry_hours; otherwise the request, and on success the three
   fields are replaced; on any exception False and nothing is assigned *)
_load_coins_list(c, api, t_now) ==
    IF /\ ~IsNone(c._cache_timestamp)
       /\ Earlier(MinusDelta(t_now, 0, _cache_expiry_hours), Get(c._cache_timestamp))
       THEN [ok |-> TRUE, crypto |-> c]
    ELSE IF ~api.ok THEN [ok |-> FALSE, crypto |-> c]
    ELSE [ok |-> TRUE,
          crypto |-> [_coins_cache |-> NewCache(api.coins_list),
                      _symbol_to_coins |-> SymbolToCoins(api.coins_list),
                      _cache_timestamp |-> Some(t_now)]]

(* __init__: the empty fields, then _load_coins_list, its value ignored *)
Constructed(api, t_now) == _load_coins_list(NoCache, api, t_now).crypto

(* _get_coin_id(symbol) without coin_name and contract_address: load if the
   cache is empty, look the symbol up, and on a miss call _load_coins_list
   and look it up again *)
_get_coin_id(c, api, t_now, symbol) ==
    LET symbol_upper == Upper(symbol)
        first == IF c._coins_cache = EmptyDict THEN _load_coins_list(c, api, t_now)
                 ELSE [ok |-> TRUE, crypto |-> c]
        c1 == first.crypto
        second == _load_coins_list(c1, api, t_now)
        c2 == second.crypto
    IN  IF ~first.ok THEN [coin_id |-> None, crypto |-> c1]
        ELSE IF symbol_upper \in DOMAIN c1._coins_cache
                THEN [coin_id |-> Some(c1._coins_cache[symbol_upper].id), crypto |-> c1]
        ELSE IF second.ok /\ symbol_upper \in DOMAIN c2._coins_cache
                THEN [coin_id |-> Some(c2._coins_cache[symbol_upper].id), crypto |-> c2]
        ELSE [coin_id |-> None, crypto |-> c2]

GetCoinId(t, symbols) ==
    \E symbol \in symbols :
        LET r == _get_coin_id(crypto, coingecko, now, symbol)
        IN  /\ Idle(t)
            /\ Return(t, [NewFrame("_get_coin_id", "") EXCEPT !.symbol = symbol], r.coin_id)
            /\ crypto' = r.crypto
            /\ UNCHANGED <<now, db_ok, settings, coingecko, usage_records, user_limits>>

(* CoinGecko lists another coin. *)
CoinListed ==
    /\ \E coins_list \in CoinsLists :
          /\ Len(coins_list) = Len(coingecko.coins_list) + 1
          /\ coingecko' = [coingecko EXCEPT !.coins_list = coins_list]
    /\ UNCHANGED <<now, db_ok, settings, crypto, usage_records, user_limits, pc, frame>>

(* Requests to the API start to fail (network, rate limit), and succeed again. *)
ApiFails ==
    /\ coingecko.ok /\ coingecko' = [coingecko EXCEPT !.ok = FALSE]
    /\ UNCHANGED <<now, db_ok, settings, crypto, usage_records, user_limits, pc, frame>>
ApiRecovers ==
    /\ ~coingecko.ok /\ coingecko' = [coingecko EXCEPT !.ok = TRUE]
    /\ UNCHANGED <<now, db_ok, settings, crypto, usage_records, user_limits, pc, frame>>

-----------------------------------------------------------------------------
(* The store: a statement fails while the file is locked or unreachable *)

StoreFails == db_ok /\ db_ok' = FALSE
              /\ UNCHANGED <<now, settings, coingecko, crypto, usage_records, user_limits, pc, frame>>
StoreRecovers == ~db_ok /\ db_ok' = TRUE
                 /\ UNCHANGED <<now, settings, coingecko, crypto, usage_records, user_limits, pc, frame>>

(* Time passes while calls are in progress *)
ClockTick ==
    /\ Tick(HourInstants)
    /\ UNCHANGED <<db_ok, settings, coingecko, crypto, usage_records, user_limits, pc, frame>>

(* One hour passes while calls are in progress *)
ClockTickHour ==
    /\ Tick({DateTime(1, 0)})
    /\ UNCHANGED <<db_ok, settings, coingecko, crypto, usage_records, user_limits, pc, frame>>

(* Time passes, up to the latest instant *)
ClockTickLate ==
    /\ Tick(LateInstants)
    /\ UNCHANGED <<db_ok, settings, coingecko, crypto, usage_records, user_limits, pc, frame>>

(* Time passes between the calls of a sequential caller *)
ClockTickIdle ==
    /\ \A t \in Tasks : Idle(t)
    /\ Tick(Instants)
    /\ UNCHANGED <<db_ok, settings, coingecko, crypto, usage_records, user_limits, pc, frame>>

Init ==
    /\ now = DateTime(0, 0)
    /\ db_ok = TRUE
    /\ settings \in SettingsChoices
    /\ coingecko = [coins_list |-> <<Coin("bitcoin", "BTC")>>, ok |-> TRUE]
    /\ crypto = Constructed(coingecko, now)
    /\ usage_records = <<>>
    /\ user_limits = {}
    /\ pc = [t \in Tasks |-> "idle"]
    /\ frame = [t \in Tasks |-> NoFrame]

(* The service is constructed while the API works or while it fails. *)
InitCoins ==
    /\ now = DateTime(0, 0)
    /\ db_ok = TRUE
    /\ settings \in SettingsChoices
    /\ coingecko \in {[coins_list |-> <<Coin("bitcoin", "BTC")>>, ok |-> ok] : ok \in BOOLEAN}
    /\ crypto = Constructed(coingecko, now)
    /\ usage_records = <<>>
    /\ user_limits = {}
    /\ pc = [t \in Tasks |-> "idle"]
    /\ frame = [t \in Tasks |-> NoFrame]

-----------------------------------------------------------------------------
(* Spec: the bot serving analysis requests. Each task is one interaction
   running analyze_stock_data or the /analyze command for user u1 (or, for
   analyze_stock_data, without a user id); the store may fail and recover at
   any moment and the clock runs. *)

RequestStep(t) ==
    \/ AnalyzeStockData(t, {"u1", ""})
    \/ AnalyzeCommand(t, {"u1"})
    \/ GulSelect(t) \/ CdlInsert(t) \/ CulQueries(t)
    \/ AsdLlm(t, {TRUE}, {Always("response"), Always("garbled")}) \/ AsdRecord(t)
    \/ Forget(t)

Next == (\E t \in Tasks : RequestStep(t)) \/ ClockTick \/ StoreFails \/ StoreRecovers

Spec == Init /\ [][Next]_vars

(* SpecThreads: the bot's handlers on the event loop and the analyses it
   hands to worker threads. *)
ThreadsStep(t) ==
    \/ AnalyzeInteraction(t)
    \/ MyUsageInteraction(t)
    \/ AdminInteraction(t)
    \/ run_analysis(t)
    \/ GulSelect(t) \/ CdlInsert(t) \/ CulQueries(t)
    \/ UulSelect(t) \/ UulInsert(t)
    \/ AsdLlm(t, {TRUE}, {Always("response"), Always("garbled")}) \/ AsdRecord(t)
    \/ Forget(t)

NextThreads == (\E t \in Tasks : ThreadsStep(t)) \/ ClockTickHour

SpecThreads == Init /\ [][NextThreads]_vars

(* SpecLlm: one interaction at a time running analyze_stock_data, with a
   client that may not be initialised and an API that may fail at any
   attempt. *)
LlmStep(t) ==
    \/ AnalyzeStockData(t, {"u1", ""})
    \/ GulSelect(t) \/ CdlInsert(t) \/ CulQueries(t)
    \/ AsdLlm(t, BOOLEAN, ScriptChoices) \/ AsdRecord(t)
    \/ Forget(t)

NextLlm == LlmStep("t1") \/ ClockTickHour \/ StoreFails \/ StoreRecovers

SpecLlm == Init /\ [][NextLlm]_vars

(* SpecCoins: one caller looking symbols up while coins are listed, the
   API fails and recovers, and time passes. *)
CoinsStep(t) == GetCoinId(t, SymbolChoices) \/ Forget(t)

NextCoins == CoinsStep("t1") \/ CoinListed \/ ApiFails \/ ApiRecovers \/ ClockTickIdle

SpecCoins == InitCoins /\ [][NextCoins]_vars

(* SpecInterleave: callers recording events of user u1 while others check
   u1's limits, the three reads of a check being separate statements. *)
InterleaveStep(t) ==
    \/ RecordUsage(t, {<<"u1", GroqEvent>>})
    \/ CheckUserLimits(t, {"u1"})
    \/ GulSelect(t) \/ CdlInsert(t) \/ CulMonthly(t) \/ CulDaily(t) \/ CulHourly(t)
    \/ Forget(t)

NextInterleave == (\E t \in Tasks : InterleaveStep(t)) \/ ClockTickHour

SpecInterleave == Init /\ [][NextInterleave]_vars

(* SpecLive: user u1 asking for analyses and checking the limits, one call
   at a time, while time passes and the store works. The clock
   keeps advancing, a call that has started runs to its end, and the user
   asks for the limits again and again. *)
LiveCallStep(t) ==
    \/ GulSelect(t) \/ CdlInsert(t) \/ CulQueries(t)
    \/ AsdLlm(t, {TRUE}, {Always("response")}) \/ AsdRecord(t)
    \/ Forget(t)

LiveStep(t) ==
    \/ AnalyzeStockData(t, {"u1"})
    \/ CheckUserLimits(t, {"u1"})
    \/ LiveCallStep(t)

NextLive == LiveStep("t1") \/ ClockTickLate

LiveFairness ==
    /\ WF_vars(ClockTickLate)
    /\ WF_vars(LiveCallStep("t1"))
    /\ SF_vars(CheckUserLimits("t1", {"u1"}))

SpecLive == Init /\ [][NextLive]_vars /\ LiveFairness

(* SpecUsers: one caller using the per-user operations of the ledger for
   users u1 and u2 alike, with a store that works. *)
UsersStep(t) ==
    \/ RecordUsage(t, Users \X {GroqEvent})
    \/ GetUserUsage(t, Users)
    \/ GetHourlyRequestCount(t, Users)
    \/ GetUserLimits(t, Users)
    \/ CheckUserLimits(t, Users)
    \/ UpdateUserLimits(t, Users, {[NoUpdate EXCEPT !.daily_limit = Some(1000000)]})
    \/ GulSelect(t) \/ CdlInsert(t) \/ CulQueries(t) \/ UulSelect(t) \/ UulInsert(t)
    \/ Forget(t)

NextUsers == UsersStep("t1") \/ ClockTickHour

SpecUsers == Init /\ [][NextUsers]_vars

(* SpecRead: one caller recording events and reading them back, with a
   store that works. *)
ReadStep(t) ==
    \/ RecordUsage(t, Users \X EventChoices)
    \/ GetUserUsage(t, Users)
    \/ GetHourlyRequestCount(t, Users)
    \/ GetUsageStats(t, WindowChoices)
    \/ GetTopUsersByUsage(t, WindowChoices)
    \/ Forget(t)

NextRead == ReadStep("t1") \/ ClockTickIdle

SpecRead == Init /\ [][NextRead]_vars

(* SpecCheck: one caller recording events and checking user u1's limits,
   statement by statement, with a store that works. *)
CheckStep(t) ==
    \/ RecordUsage(t, {<<"u1", GroqEvent>>, <<"u1", CoinEvent>>, <<"u2", CoinEvent>>})
    \/ CheckUserLimits(t, {"u1"})
    \/ GulSelect(t) \/ CdlInsert(t) \/ CulMonthly(t) \/ CulDaily(t) \/ CulHourly(t)
    \/ Forget(t)

NextCheck == CheckStep("t1") \/ ClockTickIdle

SpecCheck == Init /\ [][NextCheck]_vars

(* SpecLimits: one caller reading and updating the limits of user u1, with a
   store that works. *)
LimitsStep(t) ==
    \/ GetUserLimits(t, {"u1"})
    \/ UpdateUserLimits(t, {"u1"}, UpdateChoices)
    \/ UpdateUserLimitsPremium(t, {"u1"})
    \/ SetPremium(t, {"u1"})
    \/ SetupDatabase(t, {"u1"})
    \/ GulSelect(t) \/ CdlInsert(t) \/ UulSelect(t) \/ UulInsert(t)
    \/ Forget(t)

NextLimits == LimitsStep("t1") \/ ClockTickIdle

SpecLimits == Init /\ [][NextLimits]_vars

(* SpecRace: two callers reading, checking and updating the limits of user
   u1 at once (the analysis thread and the admin command), statement by
   statement, with a store that works and the clock running. *)
RaceStep(t) ==
    \/ GetUserLimits(t, {"u1"})
    \/ CheckUserLimits(t, {"u1"})
    \/ UpdateUserLimits(t, {"u1"}, DisjointUpdates)
    \/ GulSelect(t) \/ CdlInsert(t) \/ CulQueries(t)
    \/ UulSelect(t) \/ UulInsert(t)
    \/ Forget(t)

NextRace == (\E t \in Tasks : RaceStep(t)) \/ ClockTickHour

SpecRace == Init /\ [][NextRace]_vars

(* SpecFault: one caller reading the limits of user u1 or of the empty user
   id and updating those of u1, while the store fails and recovers at any
   moment. *)
FaultStep(t) ==
    \/ GetUserLimits(t, {"u1", ""})
    \/ UpdateUserLimits(t, {"u1"}, DisjointUpdates)
    \/ GulSelect(t) \/ CdlInsert(t) \/ UulSelect(t) \/ UulInsert(t)
    \/ Forget(t)

NextFault == FaultStep("t1") \/ StoreFails \/ StoreRecovers \/ ClockTickHour

SpecFault == Init /\ [][NextFault]_vars

(* SpecLedger: one caller using every operation of the ledger, for users u1
   and u2, while the store fails and recovers at any moment. *)
LedgerStep(t) ==
    \/ RecordUsage(t, {<<"u1", GroqEvent>>, <<"u2", CoinEvent>>})
    \/ GetUserUsage(t, {"u1"})
    \/ GetHourlyRequestCount(t, {"u1"})
    \/ GetTopUsersByUsage(t, {30})
    \/ GetUsageStats(t, {30})
    \/ CheckUserLimits(t, {"u1"})
    \/ GetUserLimits(t, {"u1"})
    \/ UpdateUserLimits(t, {"u1"}, {[NoUpdate EXCEPT !.monthly_limit = Some(50000000)]})
    \/ AdminCommand(t, {"admin", "u2"}, {"u1"},
                    {[NoUpdate EXCEPT !.daily_limit = Some(1000000)]})
    \/ GulSelect(t) \/ CdlInsert(t) \/ CulQueries(t) \/ UulSelect(t) \/ UulInsert(t)
    \/ Forget(t)

NextLedger == LedgerStep("t1") \/ StoreFails \/ StoreRecovers \/ ClockTickHour

SpecLedger == Init /\ [][NextLedger]_vars

-----------------------------------------------------------------------------
(* The ledger as the properties speak of it: events with an instant, read
   directly from usage_records, without the SQL text comparison. *)

(* the instant a stored timestamp denotes *)
EventTime(row) ==
    DateTime(row.timestamp[1], IF Len(row.timestamp) > 1 THEN row.timestamp[2] ELSE 0)

(* now - window <= t <= now *)
InTrailing(row, t_now, days, hours) ==
    LET t == EventTime(row)
    IN  ~Earlier(t, MinusDelta(t_now, days, hours)) /\ ~Earlier(t_now, t)

(* the ids of a user's events inside the trailing window *)
TrailingIds(user_id, t_now, days, hours) ==
    { i \in 1..Len(usage_records) :
        /\ usage_records[i].user_id = user_id
        /\ InTrailing(usage_records[i], t_now, days, hours) }

(* the sum of a column over the events with these ids, in id order *)
RECURSIVE SumUpTo(_, _, _)
SumUpTo(n, ids, column) ==
    IF n = 0 THEN 0
    ELSE SumUpTo(n - 1, ids, column)
         + (IF n \in ids THEN usage_records[n][column] ELSE 0)

SumOf(ids, column) == SumUpTo(Len(usage_records), ids, column)

Finished(t, op) == pc[t] = "done" /\ frame[t].op = op

-----------------------------------------------------------------------------
(* C7: get_user_usage(u, days) returns, per service, exactly the sum of
   tokens_used, the sum of estimated_cost and the count of u's events with
   now - days <= timestamp <= now; a service without such an event is absent
   (so an empty ledger gives the empty map). Checked under SpecRead. *)
C7_UsageIsWindowSum ==
    \A t \in Tasks :
        Finished(t, "get_user_usage") =>
            LET f == frame[t]
                got == Get(f.result)
                ids == TrailingIds(f.user_id, now, f.days, 0)
                of(s) == { i \in ids : usage_records[i].api_service = s }
            IN  /\ DOMAIN got = { s \in Services : of(s) # {} }
                /\ \A s \in DOMAIN got :
                      /\ got[s].tokens = SumOf(of(s), "tokens_used")
                      /\ got[s].cost = SumOf(of(s), "estimated_cost")
                      /\ got[s].requests = Cardinality(of(s))

(* A 30-day query that has one event of the user exactly at now - 30 days
   (counted), an older one (not counted) and another user's event inside the
   window (not counted). *)
C7_Witness ==
    \E t \in Tasks :
        /\ Finished(t, "get_user_usage")
        /\ frame[t].days = 30
        /\ \E i, j, k \in 1..Len(usage_records) :
              /\ usage_records[i].user_id = frame[t].user_id
              /\ EventTime(usage_records[i]) = MinusDelta(now, 30, 0)
              /\ usage_records[j].user_id = frame[t].user_id
              /\ Earlier(EventTime(usage_records[j]), MinusDelta(now, 30, 0))
              /\ usage_records[k].user_id # frame[t].user_id
              /\ InTrailing(usage_records[k], now, 30, 0)
        /\ \E s \in DOMAIN Get(frame[t].result) : Get(frame[t].result)[s].requests = 1

(* C8: get_hourly_request_count(u) returns the number of u's events, of any
   service, with now - 1 hour <= timestamp <= now. Checked under SpecRead. *)
C8_HourlyCountIsExact ==
    \A t \in Tasks :
        Finished(t, "get_hourly_request_count") =>
            Get(frame[t].result) = Cardinality(TrailingIds(frame[t].user_id, now, 0, 1))

(* A count of 1 with an older event of the same user and an event of another
   user inside the hour. *)
C8_Witness ==
    \E t \in Tasks :
        /\ Finished(t, "get_hourly_request_count")
        /\ Get(frame[t].result) = 1
        /\ \E j, k \in 1..Len(usage_records) :
              /\ usage_records[j].user_id = frame[t].user_id
              /\ Earlier(EventTime(usage_records[j]), MinusDelta(now, 0, 1))
              /\ usage_records[k].user_id # frame[t].user_id
              /\ InTrailing(usage_records[k], now, 0, 1)

-----------------------------------------------------------------------------
(* the limits that govern a user: the stored row's, or the settings' defaults *)
GoverningLimits(user_id) ==
    IF SelectLimits(user_limits, user_id) = {} THEN DefaultLimits(settings)
    ELSE RowLimits(CHOOSE r \in SelectLimits(user_limits, user_id) : TRUE)

TrailingCost(user_id, days) == SumOf(TrailingIds(user_id, now, days, 0), "estimated_cost")
TrailingRequests(user_id) == Cardinality(TrailingIds(user_id, now, 0, 1))

(* C1: with the store reachable, check_user_limits(u) answers within_limits
   = TRUE exactly when the user's 30-day cost, 1-day cost and 1-hour request
   count are each <= the corresponding limit that governs the user, and the
   answer agrees with the six figures it reports. Checked under SpecCheck. *)
C1_WithinIffAllThreeAtMost ==
    \A t \in Tasks :
        Finished(t, "check_user_limits") =>
            LET r == Get(frame[t].result)
                u == frame[t].user_id
                lim == GoverningLimits(u)
            IN  /\ r.within_limits <=>
                      /\ TrailingCost(u, 30) <= lim.monthly_limit
                      /\ TrailingCost(u, 1) <= lim.daily_limit
                      /\ TrailingRequests(u) <= lim.requests_per_hour
                /\ r.within_limits <=>
                      /\ r.monthly_usage <= r.monthly_limit
                      /\ r.daily_usage <= r.daily_limit
                      /\ r.hourly_requests <= r.hourly_limit

(* A user exactly on the daily limit and exactly on the hourly limit is
   answered within_limits = TRUE. *)
C1_Witness ==
    \E t \in Tasks :
        /\ Finished(t, "check_user_limits")
        /\ Get(frame[t].result).within_limits
        /\ Get(frame[t].result).daily_usage = Get(frame[t].result).daily_limit
        /\ Get(frame[t].result).hourly_requests = Get(frame[t].result).hourly_limit

(* C5: with the store reachable, a check for a user who had no limits row
   when it began and has no event in the ledger answers within_limits = TRUE
   with monthly_usage = daily_usage = hourly_requests = 0 and reports the
   settings' default limits. Checked under SpecCheck. *)
C5_NewUserWithinDefaults ==
    \A t \in Tasks :
        ( /\ Finished(t, "check_user_limits")
          /\ frame[t].before = Some({})
          /\ \A i \in 1..Len(usage_records) : usage_records[i].user_id # frame[t].user_id )
        => LET r == Get(frame[t].result)
           IN  /\ r.within_limits
               /\ r.monthly_usage = 0 /\ r.daily_usage = 0 /\ r.hourly_requests = 0
               /\ r.monthly_limit = settings.DEFAULT_MONTHLY_LIMIT
               /\ r.daily_limit = settings.DEFAULT_DAILY_LIMIT
               /\ r.hourly_limit = settings.DEFAULT_HOURLY_REQUESTS

(* A first check of a user without row and without events, while another
   user has events, under settings that differ from the hardcoded literals. *)
C5_Witness ==
    \E t \in Tasks :
        /\ Finished(t, "check_user_limits")
        /\ frame[t].before = Some({})
        /\ Len(usage_records) > 0
        /\ \A i \in 1..Len(usage_records) : usage_records[i].user_id # frame[t].user_id
        /\ settings.DEFAULT_HOURLY_REQUESTS # FALLBACK_REQUESTS_PER_HOUR
        /\ Get(frame[t].result).within_limits

(* C6: with the store reachable, check_user_limits(u) reports monthly_usage =
   the sum of estimated_cost of u's events of the trailing 30 days,
   daily_usage = that sum over the trailing day and hourly_requests = the
   number of u's events of the trailing hour. Checked under SpecCheck. *)
C6_FiguresAreTrailingSums ==
    \A t \in Tasks :
        Finished(t, "check_user_limits") =>
            LET r == Get(frame[t].result)
                u == frame[t].user_id
            IN  /\ r.monthly_usage = TrailingCost(u, 30)
                /\ r.daily_usage = TrailingCost(u, 1)
                /\ r.hourly_requests = TrailingRequests(u)

(* The scenario with three events of 0.75: under the limits 10.00 / 2.00 / 20
   the day's 2.25 exceeds the daily limit, the month's 2.25 does not exceed
   the monthly one, and the answer is within_limits = FALSE. *)
C6_Witness ==
    \E t \in Tasks :
        /\ Finished(t, "check_user_limits")
        /\ Get(frame[t].result).monthly_limit = DEFAULT_MONTHLY_LIMIT
        /\ Get(frame[t].result).daily_limit = DEFAULT_DAILY_LIMIT
        /\ Get(frame[t].result).hourly_limit = DEFAULT_HOURLY_REQUESTS
        /\ Get(frame[t].result).daily_usage = 2250000
        /\ Get(frame[t].result).monthly_usage = 2250000
        /\ Get(frame[t].result).hourly_requests = 3
        /\ ~Get(frame[t].result).within_limits

(* Calendar windows of span hours: 1 for the clock hour, 24 for the day from
   its midnight, 744 for a month of 31 days (the instants of the model all lie
   in the first one). *)
CalendarIds(user_id, t_now, span) ==
    { i \in 1..Len(usage_records) :
        /\ usage_records[i].user_id = user_id
        /\ EventTime(usage_records[i]).h \div span = t_now.h \div span
        /\ ~Earlier(t_now, EventTime(usage_records[i])) }

(* C9: check_user_limits(u) reports the cost of u's events since the 1st of
   the current month, the cost of u's events since the last midnight and the
   number of u's events in the current clock hour. The code's trailing
   windows make this false. Checked under SpecCheck. *)
C9_FiguresAreCalendarAligned ==
    \A t \in Tasks :
        Finished(t, "check_user_limits") =>
            LET r == Get(frame[t].result)
                u == frame[t].user_id
            IN  /\ r.monthly_usage = SumOf(CalendarIds(u, now, 744), "estimated_cost")
                /\ r.daily_usage = SumOf(CalendarIds(u, now, 24), "estimated_cost")
                /\ r.hourly_requests = Cardinality(CalendarIds(u, now, 1))

-----------------------------------------------------------------------------
(* the value a field of the row must have after an update: the supplied one,
   else the one stored when the call began, else the settings' default *)
Expected(supplied, rows, column, default) ==
    IF ~IsNone(supplied) THEN Get(supplied)
    ELSE IF rows # {} THEN (CHOOSE r \in rows : TRUE)[column]
    ELSE default

(* C10: with the store reachable, a successful update_user_limits(u, ...)
   leaves exactly one row of u in which every supplied field has the supplied
   value, every field not supplied has the value stored when the call began
   (the default if there was no row), created_at is the created_at stored
   when the call began (the time of the call if there was no row) and
   updated_at is the time of the call. Checked under SpecLimits. *)
C10_UpdateSetsOnlySupplied ==
    \A t \in Tasks :
        ( Finished(t, "update_user_limits") /\ frame[t].result = Some(TRUE) ) =>
            LET f == frame[t]
                was == Get(f.before)
                rows == SelectLimits(user_limits, f.user_id)
            IN  /\ Cardinality(rows) = 1
                /\ \A r \in rows :
                      /\ r.monthly_limit = Expected(f.upd.monthly_limit, was, "monthly_limit",
                                                    settings.DEFAULT_MONTHLY_LIMIT)
                      /\ r.daily_limit = Expected(f.upd.daily_limit, was, "daily_limit",
                                                  settings.DEFAULT_DAILY_LIMIT)
                      /\ r.requests_per_hour = Expected(f.upd.requests_per_hour, was,
                                                        "requests_per_hour",
                                                        settings.DEFAULT_HOURLY_REQUESTS)
                      /\ r.created_at = Expected(None, was, "created_at", IsoFormat(now))
                      /\ r.updated_at = IsoFormat(now)

(* An update of daily_limit alone on a row made earlier, whose monthly_limit
   and requests_per_hour differ from every default: they and created_at
   stay, updated_at moves. *)
C10_Witness ==
    \E t \in Tasks :
        /\ Finished(t, "update_user_limits")
        /\ frame[t].result = Some(TRUE)
        /\ frame[t].upd = [NoUpdate EXCEPT !.daily_limit = Some(1000000)]
        /\ \E r \in SelectLimits(user_limits, frame[t].user_id) :
              /\ r.monthly_limit = 50000000
              /\ r.requests_per_hour = 100
              /\ r.daily_limit = 1000000
              /\ r.created_at # r.updated_at
              /\ r.created_at = IsoFormat(DateTime(0, 0))

-----------------------------------------------------------------------------
MeteredAnalysis(t) == frame[t].op = "analyze_stock_data" /\ Metered(frame[t].user_id)

(* C2: a metered analyze_stock_data whose check_user_limits met a failing
   statement (in get_user_limits, create_default_limits, get_user_usage or
   get_hourly_request_count) never comes to the LLM call: the check answered
   within_limits = FALSE. The code answers from the swallowed failures' zero
   figures and built-in limits instead, which makes this false. Checked
   under Spec. *)
C2_FailedCheckBlocks ==
    \A t \in Tasks :
        (MeteredAnalysis(t) /\ pc[t] = "asd_llm") => ~frame[t].faulted

(* C3: in analyze_stock_data with a user id the analysis (the LLM call) and
   the record_usage call come only after the check of the same invocation
   answered within_limits = TRUE; an invocation whose check answered FALSE
   returns the limit message without having made either; and the command
   handler shows the interface only after its check answered TRUE. Checked
   under Spec. *)
C3_CheckGatesCallAndRecord ==
    \A t \in Tasks :
        /\ (MeteredAnalysis(t) /\ pc[t] \in {"asd_llm", "asd_record"})
              => frame[t].passed = Some(TRUE)
        /\ (MeteredAnalysis(t) /\ pc[t] = "done" /\ ~IsNone(frame[t].event))
              => frame[t].passed = Some(TRUE)
        /\ (MeteredAnalysis(t) /\ pc[t] = "done" /\ ~IsNone(frame[t].limits_check))
              => /\ ~Get(frame[t].limits_check).within_limits
                 /\ IsNone(frame[t].passed)
                 /\ IsNone(frame[t].event)
        /\ (Finished(t, "analyze_command") /\ frame[t].result = Some("interface_shown"))
              => frame[t].passed = Some(TRUE)
        /\ (Finished(t, "analyze_command") /\ frame[t].result = Some("limit_message"))
              => /\ ~Get(frame[t].limits_check).within_limits
                 /\ IsNone(frame[t].passed)

(* An invocation refused by its check (the rate limit message), the ledger
   holding the events that exceed the limit. *)
C3_Witness ==
    \E t \in Tasks :
        /\ MeteredAnalysis(t)
        /\ pc[t] = "done"
        /\ ~IsNone(frame[t].limits_check)
        /\ ~Get(frame[t].limits_check).within_limits
        /\ frame[t].result = Some("Rate Limit Exceeded")
        /\ IsNone(frame[t].event)
        /\ Len(usage_records) = 2

(* C4: with the tasks' analysis requests of one user in flight at once, the
   number of the user's events inside the trailing hour never exceeds the
   user's requests_per_hour plus the number of tasks. A check made while the
   store fails counts zero requests, so requests keep passing; this makes
   the bound false. Checked under Spec. *)
C4_OvershootAtMostOnePerCaller ==
    TrailingRequests("u1") <= GoverningLimits("u1").requests_per_hour + Cardinality(Tasks)

-----------------------------------------------------------------------------
(* C11: granting premium succeeds: a direct update_user_limits(u,
   is_premium=True, monthly_limit=50.00), the set_premium command and the
   setup script each complete with success, after which the user's row holds
   the premium monthly limit. In the code update_user_limits has no
   is_premium parameter and Settings has no PREMIUM_ attribute, so each of the
   three ends in an exception and no row is written; this makes the
   statement false. Checked under SpecLimits. *)
C11_PremiumGranted ==
    \A t \in Tasks :
        /\ Finished(t, "update_user_limits_premium")
              => /\ frame[t].result # Some("TypeError")
                 /\ \E r \in SelectLimits(user_limits, frame[t].user_id) :
                       r.monthly_limit = 50000000
        /\ Finished(t, "set_premium")
              => /\ frame[t].result = Some("Premium Status Updated")
                 /\ SelectLimits(user_limits, frame[t].user_id) # {}
        /\ Finished(t, "setup_database") => frame[t].result = Some(TRUE)

-----------------------------------------------------------------------------
(* a task takes the create_default_limits step in this transition *)
Provisions(t) == pc[t] = "cdl_insert" /\ pc'[t] # "cdl_insert"

(* C12: whatever the interleaving of a first get_user_limits(u) or
   check_user_limits(u) with an update_user_limits(u, ...), the default
   provisioning of the former never replaces a row that holds limits set by
   an update: the row is in the table unchanged after the provisioning step.
   The code decides "no row" at its SELECT and writes INSERT OR REPLACE
   later, so an update committed in between is overwritten; this makes the
   statement false. Checked under SpecRace. *)
C12_ProvisioningKeepsUpdatedRow ==
    [][ \A t \in Tasks :
          (Provisions(t) /\ frame[t].op \in {"get_user_limits", "check_user_limits"})
          => \A r \in SelectLimits(user_limits, frame[t].user_id) :
                RowLimits(r) # DefaultLimits(settings) => r \in user_limits' ]_vars

(* C13: a get_user_limits(u) whose SELECT failed writes no default row: the
   user_limits table is the same after its create_default_limits step, so an
   existing row keeps its values. The code's except branch calls
   create_default_limits like the "no row" branch, and if the store answers
   again by then the defaults replace the row; this makes the statement
   false. Checked under SpecFault. *)
C13_FailedReadWritesNothing ==
    [][ \A t \in Tasks :
          (Provisions(t) /\ frame[t].op = "get_user_limits" /\ frame[t].faulted)
          => user_limits' = user_limits ]_vars

(* a completed, successful update_user_limits that supplied only this field *)
UpdatedOnly(t, column) ==
    /\ Finished(t, "update_user_limits")
    /\ frame[t].result = Some(TRUE)
    /\ \A c \in UpdateParameters : IsNone(frame[t].upd[c]) <=> c # column

(* C14: when an update_user_limits(u, monthly_limit=m) and an
   update_user_limits(u, daily_limit=d) have both completed, however their
   statements interleaved, the row of u holds both m and d. Each call reads
   the current limits first and writes all three columns later, so the later
   writer puts back the value it read before the other's commit; this makes
   the statement false. Checked under SpecRace. *)
C14_DisjointUpdatesBothKept ==
    \A t1, t2 \in Tasks :
        ( /\ UpdatedOnly(t1, "monthly_limit")
          /\ UpdatedOnly(t2, "daily_limit")
          /\ frame[t1].user_id = frame[t2].user_id )
        => \E r \in SelectLimits(user_limits, frame[t1].user_id) :
              /\ r.monthly_limit = Get(frame[t1].upd.monthly_limit)
              /\ r.daily_limit = Get(frame[t2].upd.daily_limit)

(* the call began when the user had no row, or a row nobody has updated *)
SawNoUpdate(t) ==
    \A r \in Get(frame[t].before) :
        RowLimits(r) = DefaultLimits(settings) /\ r.created_at = r.updated_at

(* C15: with the store reachable, two completed get_user_limits(u) calls, the
   first begun when u had no row and the second begun before or after the
   first provisioned it, return the same monthly_limit, daily_limit and
   requests_per_hour, and exactly one row of u exists and holds those
   values. Checked under SpecRace. *)
C15_ProvisioningIdempotent ==
    \A t1, t2 \in Tasks :
        ( /\ t1 # t2
          /\ Finished(t1, "get_user_limits") /\ Finished(t2, "get_user_limits")
          /\ frame[t1].user_id = frame[t2].user_id
          /\ frame[t1].before = Some({})
          /\ SawNoUpdate(t2) )
        => /\ frame[t1].result = frame[t2].result
           /\ Cardinality(SelectLimits(user_limits, frame[t1].user_id)) = 1
           /\ \A r \in SelectLimits(user_limits, frame[t1].user_id) :
                 RowLimits(r) = Get(frame[t1].result)

(* The race: both calls began before the user had a row, both provisioned,
   and the row that stays was written an hour after the calls began. *)
C15_Witness ==
    \E t1, t2 \in Tasks :
        /\ t1 # t2
        /\ Finished(t1, "get_user_limits") /\ Finished(t2, "get_user_limits")
        /\ frame[t1].before = Some({}) /\ frame[t2].before = Some({})
        /\ \E r \in SelectLimits(user_limits, "u1") : r.created_at = IsoFormat(DateTime(1, 0))

(* C16: with the store reachable, user_limits never holds two rows of one
   user_id, and whenever a get_user_limits(u), check_user_limits(u) or
   successful update_user_limits(u, ...) has completed, exactly one row of u
   exists. Checked under SpecRace. *)
C16_OneRowPerUser ==
    /\ \A r1, r2 \in user_limits : r1.user_id = r2.user_id => r1 = r2
    /\ \A t \in Tasks :
          ( \/ Finished(t, "get_user_limits")
            \/ Finished(t, "check_user_limits")
            \/ (Finished(t, "update_user_limits") /\ frame[t].result = Some(TRUE)) )
          => Cardinality(SelectLimits(user_limits, frame[t].user_id)) = 1

(* Two callers have written the row of one user at different times: a
   completed update whose row was first created by the other caller's
   provisioning an hour earlier. *)
C16_Witness ==
    \E t1, t2 \in Tasks :
        /\ t1 # t2
        /\ Finished(t1, "update_user_limits") /\ frame[t1].result = Some(TRUE)
        /\ Finished(t2, "get_user_limits") /\ frame[t2].before = Some({})
        /\ frame[t1].before = Some({})
        /\ \E r \in SelectLimits(user_limits, "u1") :
              r.created_at # r.updated_at /\ RowLimits(r) # DefaultLimits(settings)

-----------------------------------------------------------------------------
(* a task completes a record_usage call with success in this transition *)
Records(t) ==
    /\ Idle(t)
    /\ pc'[t] = "done"
    /\ frame'[t].op = "record_usage"
    /\ frame'[t].result = Some(TRUE)

(* C17: the ledger is append-only. Every transition leaves usage_records as
   it is, or is a successful record_usage that appends exactly one row, the
   event it was given stamped with the time of the call, after the rows
   already there, which keep their place and fields. So get_user_usage,
   get_hourly_request_count, check_user_limits, get_user_limits,
   update_user_limits, get_usage_stats and get_top_users_by_usage never
   change usage_records. Checked under SpecLedger. *)
C17_LedgerAppendOnly ==
    [][ \/ usage_records' = usage_records
        \/ \E t \in Tasks :
              /\ Records(t)
              /\ usage_records' =
                    Append(usage_records,
                           Get(frame'[t].event) @@
                           [user_id |-> frame'[t].user_id, timestamp |-> IsoFormat(now)]) ]_vars

(* The ledger is full, the limits of u1 have been updated, and the global
   statistics have just been read over all the events. *)
C17_Witness ==
    /\ Len(usage_records) = MaxEvents
    /\ \E r \in SelectLimits(user_limits, "u1") : r.monthly_limit = 50000000
    /\ \E t \in Tasks :
          /\ Finished(t, "get_usage_stats")
          /\ ~frame[t].faulted
          /\ Get(frame[t].result).total_requests = MaxEvents

(* a task completes a call of this operation in this transition *)
Completes(t, op) == pc[t] # "done" /\ pc'[t] = "done" /\ frame'[t].op = op

(* C18: a check_user_limits(u) that met no failing statement returns the
   cost and the count of exactly the in-window events of u that are in the
   ledger when it reads, and a record_usage that returns False has added
   nothing to the ledger; with C17 the ledger holds exactly the events of
   the record_usage calls that returned True. No total is kept between
   calls. Checked under SpecLedger. *)
C18_FiguresAreTheCommittedEvents ==
    [][ \A t \in Tasks :
          /\ (Completes(t, "check_user_limits") /\ ~frame'[t].faulted)
                => LET r == Get(frame'[t].result)
                       u == frame'[t].user_id
                   IN  /\ r.monthly_usage = TrailingCost(u, 30)
                       /\ r.daily_usage = TrailingCost(u, 1)
                       /\ r.hourly_requests = TrailingRequests(u)
          /\ (Completes(t, "record_usage") /\ frame'[t].result = Some(FALSE))
                => usage_records' = usage_records ]_vars

(* A check that reports two requests of u1 costing 0.50 while the ledger
   also holds an event of u2. *)
C18_Witness ==
    \E t \in Tasks :
        /\ Finished(t, "check_user_limits")
        /\ ~frame[t].faulted
        /\ Get(frame[t].result).hourly_requests = 2
        /\ Get(frame[t].result).monthly_usage = 500000
        /\ Len(usage_records) = 3

(* C19: when the INSERT of the record_usage call in analyze_stock_data
   fails, the ledger is unchanged and analyze_stock_data returns the
   analysis result, the same value it returns when the recording succeeds
   (and then exactly one row has been appended). Checked under Spec. *)
C19_RecordFailureKeepsResult ==
    [][ \A t \in Tasks :
          (pc[t] = "asd_record" /\ pc'[t] = "done")
          => /\ frame'[t].result = Some(Get(frame[t].analysis).action)
             /\ IF db_ok THEN Len(usage_records') = Len(usage_records) + 1
                         ELSE usage_records' = usage_records ]_vars

(* An analysis that passed its check, whose recording failed (the ledger is
   still empty), returned as "Buy". *)
C19_Witness ==
    \E t \in Tasks :
        /\ MeteredAnalysis(t)
        /\ pc[t] = "done"
        /\ ~IsNone(frame[t].event)
        /\ frame[t].faulted
        /\ frame[t].result = Some("Buy")
        /\ usage_records = <<>>

(* C20: an empty user id is rejected before the store is touched: no row
   with user_id "" is ever in user_limits. The code validates nothing:
   get_user_limits("") provisions a default row for "". Checked under
   SpecFault. *)
C20_EmptyUserRejected ==
    \A r \in user_limits : r.user_id # ""

-----------------------------------------------------------------------------
(* the ids of every user's events inside the trailing window *)
TrailingIdsOfAll(t_now, days) ==
    { i \in 1..Len(usage_records) : InTrailing(usage_records[i], t_now, days, 0) }

UsersOf(ids) == { usage_records[i].user_id : i \in ids }

(* C21: with the store reachable, get_usage_stats(days) returns unique_users
   = the number of distinct users with an event in the trailing window,
   total_requests = the number of those events, total_cost = the sum of their
   estimated_cost and avg_cost_per_request = total_cost / total_requests;
   when the window holds no event all four are zero. The call returns a
   value in every case. Checked under SpecRead. *)
C21_StatsAreWindowAggregates ==
    \A t \in Tasks :
        Finished(t, "get_usage_stats") =>
            LET r == Get(frame[t].result)
                ids == TrailingIdsOfAll(now, frame[t].days)
            IN  /\ r.unique_users = Cardinality(UsersOf(ids))
                /\ r.total_requests = Cardinality(ids)
                /\ r.total_cost = SumOf(ids, "estimated_cost")
                /\ r.avg_cost_per_request.num = (IF ids = {} THEN 0 ELSE r.total_cost)
                /\ ids # {} => r.avg_cost_per_request.den = r.total_requests
                /\ ids = {} => /\ r.unique_users = 0 /\ r.total_requests = 0
                               /\ r.total_cost = 0 /\ r.avg_cost_per_request.num = 0

(* One-day statistics over two events of two users, a third event being
   older than the window. *)
C21_Witness ==
    \E t \in Tasks :
        /\ Finished(t, "get_usage_stats")
        /\ frame[t].days = 1
        /\ Get(frame[t].result).unique_users = 2
        /\ Get(frame[t].result).total_requests = 2
        /\ Len(usage_records) = 3

(* the sum of a user's in-window event costs *)
UserTotal(user_id, ids) ==
    SumOf({ i \in ids : usage_records[i].user_id = user_id }, "estimated_cost")

(* C22: with the store reachable, get_top_users_by_usage(days, limit)
   returns a list of at most limit pairs (user_id, total_cost), in
   non-increasing order of total_cost, each user at most once and only users
   with an event in the window, total_cost being the sum of the user's
   in-window costs, no omitted user having a higher total than a listed one,
   and no place left empty while a user is omitted; an empty window gives the
   empty list. Checked under SpecRead. *)
C22_TopUsersOrderedAndExact ==
    \A t \in Tasks :
        Finished(t, "get_top_users_by_usage") =>
            LET q == Get(frame[t].result)
                ids == TrailingIdsOfAll(now, frame[t].days)
                listed == { q[i][1] : i \in 1..Len(q) }
            IN  /\ Len(q) <= frame[t].limit
                /\ \A i, j \in 1..Len(q) : i < j => q[i][2] >= q[j][2] /\ q[i][1] # q[j][1]
                /\ listed \subseteq UsersOf(ids)
                /\ \A i \in 1..Len(q) : q[i][2] = UserTotal(q[i][1], ids)
                /\ \A u \in UsersOf(ids) \ listed :
                      /\ Len(q) = frame[t].limit
                      /\ \A i \in 1..Len(q) : q[i][2] >= UserTotal(u, ids)
                /\ ids = {} => q = <<>>

(* A top-1 list naming the user with the higher total while another user
   with events in the window is omitted. *)
C22_Witness ==
    \E t \in Tasks :
        /\ Finished(t, "get_top_users_by_usage")
        /\ frame[t].limit = 1
        /\ Len(Get(frame[t].result)) = 1
        /\ LET ids == TrailingIdsOfAll(now, frame[t].days)
           IN  \E u \in UsersOf(ids) :
                  /\ u # Get(frame[t].result)[1][1]
                  /\ UserTotal(u, ids) < Get(frame[t].result)[1][2]

-----------------------------------------------------------------------------
(* C23: an admin command invoked by a user who is not in ADMIN_USER_IDS
   ends at once with the refusal: the task's call is complete in the same
   step, its value is "Admin access required", no statement of the ledger
   has run, and usage_records and user_limits are unchanged. Checked under
   SpecLedger. *)
C23_AdminCommandsAdminOnly ==
    [][ \A t \in Tasks :
          ( /\ frame'[t] # frame[t]
            /\ frame'[t].invoker # ""
            /\ frame'[t].invoker \notin settings.ADMIN_USER_IDS )
          => /\ Idle(t)
             /\ pc'[t] = "done"
             /\ frame'[t].op \in AdminCommandNames
             /\ frame'[t].result = Some("Admin access required")
             /\ UNCHANGED <<usage_records, user_limits>> ]_vars

(* User u2, not an admin, has asked for u1's usage: refused, while the
   ledger holds u1's events and u1's row. *)
C23_Witness ==
    \E t \in Tasks :
        /\ Finished(t, "user_usage")
        /\ frame[t].invoker = "u2"
        /\ frame[t].user_id = "u1"
        /\ frame[t].result = Some("Admin access required")
        /\ TrailingIds("u1", now, 30, 0) # {}
        /\ SelectLimits(user_limits, "u1") # {}

-----------------------------------------------------------------------------
(* C24: no ledger call made for a chat interaction runs on the event-loop
   thread: whenever a handler's task is inside a UsageTracker method, the
   thread running it is a worker thread. Checked under SpecThreads. *)
C24_LedgerCallsOffEventLoop ==
    \A t \in Tasks : InLedgerCall(t) => frame[t].thread = "worker"

-----------------------------------------------------------------------------
(* C25: analyze_stock_data records a usage event only for a request whose
   LLM call returned a parseable response: a step that appends the
   request's row to usage_records is taken only when the client was
   initialised and the last attempt returned the JSON asked for. The code
   records whenever analyze_market_data returned a dict, and its Error
   results are dicts, which makes this false. Checked under SpecLlm. *)
C25_RecordOnlyAfterResponse ==
    [][ \A t \in Tasks :
          ( /\ pc[t] = "asd_record"
            /\ Len(usage_records') > Len(usage_records) )
          => /\ frame[t].client
             /\ frame[t].attempts > 0
             /\ frame[t].script[frame[t].attempts] = "response" ]_vars

(* The task passes the analyze_market_data call of analyze_stock_data. *)
CallsLlm(t) == pc[t] = "asd_llm" /\ pc'[t] # "asd_llm"

(* C26: a request makes at most 3 attempts at the API, every attempt but
   the last one having raised HTTPStatusError (so any other exception, and
   any response, ends the attempts); when the last attempt raised, the
   request goes on with a result of action "Error"; and the request adds at
   most one row to usage_records: only the record step adds one, and the
   request completes with it. Checked under SpecLlm. *)
C26_AtMostThreeAttemptsOneEvent ==
    [][ \A t \in Tasks :
          /\ CallsLlm(t) =>
                LET f == frame'[t]
                    n == f.attempts
                    action == IF pc'[t] = "done" THEN Get(f.result)
                              ELSE Get(f.analysis).action
                IN  /\ n <= 3
                    /\ f.client => n >= 1
                    /\ ~f.client => n = 0
                    /\ \A i \in 1..(n - 1) : f.script[i] = "HTTPStatusError"
                    /\ pc'[t] \in {"asd_record", "done"}
                    /\ (n >= 1 /\ f.script[n] \in {"HTTPStatusError", "APIError"})
                          => action = "Error"
          /\ pc'[t] = "asd_record" => pc[t] \in {"asd_llm", "asd_record"}
          /\ Len(usage_records') # Len(usage_records) =>
                /\ Len(usage_records') = Len(usage_records) + 1
                /\ pc["t1"] = "asd_record" /\ pc'["t1"] = "done" ]_vars

(* A metered request has ended with action "Error" after three attempts
   that all raised HTTPStatusError, and one row was recorded for it. *)
C26_Witness ==
    \E t \in Tasks :
        /\ Finished(t, "analyze_stock_data")
        /\ Metered(frame[t].user_id)
        /\ frame[t].attempts = 3
        /\ frame[t].script = Always("HTTPStatusError")
        /\ frame[t].result = Some("Error")
        /\ Len(usage_records) = 1

-----------------------------------------------------------------------------
(* C27: a _get_coin_id(symbol) that misses in a loaded cache fetches the
   coin list again before it answers None: when the API works, None is
   returned only for a symbol the API does not list at that time; and a
   lookup made while the API fails leaves _coins_cache and _symbol_to_coins
   as they were. _load_coins_list returns True without a request while the
   cache is younger than 24 hours, so the "refresh" of a miss fetches
   nothing during that time, which makes the first part false. Checked
   under SpecCoins. *)
C27_MissRefreshesFromApi ==
    [][ \A t \in Tasks :
          ( Idle(t) /\ pc'[t] = "done" /\ frame'[t].op = "_get_coin_id" )
          => /\ ( /\ crypto._coins_cache # EmptyDict
                  /\ coingecko.ok
                  /\ IsNone(Get(frame'[t].result)) )
                => Upper(frame'[t].symbol) \notin SymbolsOf(coingecko.coins_list)
             /\ ~coingecko.ok =>
                   /\ crypto'._coins_cache = crypto._coins_cache
                   /\ crypto'._symbol_to_coins = crypto._symbol_to_coins ]_vars

-----------------------------------------------------------------------------
(* C28: in every result of check_user_limits the daily usage is at most the
   monthly usage, whatever record_usage calls of other tasks run between
   the check's monthly, daily and hourly reads. The reads are three
   statements in three connections, so an event committed after the monthly
   read is counted by the daily read only, which makes this false. Checked
   under SpecInterleave. *)
C28_DailyAtMostMonthly ==
    \A t \in Tasks :
        Finished(t, "check_user_limits") =>
            Get(frame[t].result).daily_usage <= Get(frame[t].result).monthly_usage

-----------------------------------------------------------------------------
(* a call for the user has just been refused or answered within_limits = FALSE *)
Blocked(user_id) ==
    \E t \in Tasks :
        /\ pc[t] = "done"
        /\ frame[t].user_id = user_id
        /\ \/ frame[t].op = "analyze_stock_data" /\ ~IsNone(frame[t].limits_check)
           \/ frame[t].op = "check_user_limits" /\ ~Get(frame[t].result).within_limits

(* a check_user_limits for the user, called directly or by
   analyze_stock_data, has answered within_limits = TRUE *)
Unblocked(user_id) ==
    \E t \in Tasks :
        /\ frame[t].user_id = user_id
        /\ \/ Finished(t, "check_user_limits") /\ Get(frame[t].result).within_limits
           \/ frame[t].op = "analyze_stock_data" /\ frame[t].passed = Some(TRUE)

(* C29: a blocked user is unblocked again by the passing of time alone:
   whenever a request of u1 was refused or a check answered within_limits =
   FALSE, and the clock has not reached the latest instant of the model, a
   later check_user_limits of u1 (called directly or by analyze_stock_data)
   answers within_limits = TRUE; nobody but u1 acts. Checked under
   SpecLive. *)
C29_BlockedEventuallyUnblocked ==
    (Blocked("u1") /\ now # DateTime(1442, 0)) ~> Unblocked("u1")

(* u1 made enough requests to be refused under an hourly limit of 1, all of
   them are now older than every window, and a check answers TRUE. *)
C29_Witness ==
    /\ \E t \in Tasks : Finished(t, "check_user_limits")
                          /\ Get(frame[t].result).within_limits
    /\ settings.DEFAULT_HOURLY_REQUESTS = 1
    /\ Len(usage_records) >= 2
    /\ \A i \in 1..Len(usage_records) : usage_records[i].user_id = "u1"
    /\ TrailingIds("u1", now, 30, 0) = {}
    /\ db_ok

-----------------------------------------------------------------------------
(* what the read operations answer for a user, given the two tables, the
   store, the clock and the settings *)
AnswersFor(user_id, records, rows, ok, t_now, s) ==
    LET usage30 == UserUsage(records, ok, user_id, 30, t_now)
        usage1 == UserUsage(records, ok, user_id, 1, t_now)
        hourly == HourlyRequestCount(records, ok, user_id, t_now)
        limits == IF SelectLimits(rows, user_id) = {} THEN DefaultLimits(s)
                  ELSE RowLimits(CHOOSE r \in SelectLimits(rows, user_id) : TRUE)
    IN  [get_user_usage |-> <<usage1, usage30>>,
         get_hourly_request_count |-> hourly,
         rows |-> SelectLimits(rows, user_id),
         get_user_limits |-> limits,
         check_user_limits |-> CheckResult(limits, usage30, usage1, hourly)]

(* the task takes a step of a record_usage, get_user_limits,
   check_user_limits or update_user_limits call made for the user *)
StepFor(t, user_id) ==
    /\ pc[t] # "done"
    /\ pc'[t] # pc[t] \/ frame'[t] # frame[t]
    /\ frame'[t].user_id = user_id
    /\ frame'[t].op \in {"record_usage", "get_user_limits", "check_user_limits",
                         "update_user_limits"}

(* C30: users are isolated: no step of a record_usage, get_user_limits,
   check_user_limits or update_user_limits call for user a changes what
   get_user_usage, get_hourly_request_count, get_user_limits and
   check_user_limits answer for another user b, nor b's row of
   user_limits. Checked under SpecUsers. *)
C30_UsersIsolated ==
    [][ \A t \in Tasks : \A a \in Users : \A b \in Users \ {a} :
          StepFor(t, a) =>
              AnswersFor(b, usage_records', user_limits', db_ok', now', settings')
                = AnswersFor(b, usage_records, user_limits, db_ok, now, settings) ]_vars

(* A record_usage for u1 has just added a row while u2 has an event in the
   windows and a row of limits an update has changed. *)
C30_Witness ==
    \E t \in Tasks :
        /\ Finished(t, "record_usage")
        /\ frame[t].user_id = "u1"
        /\ frame[t].result = Some(TRUE)
        /\ TrailingIds("u2", now, 0, 1) # {}
        /\ \E r \in SelectLimits(user_limits, "u2") : r.daily_limit = 1000000

=============================================================================
